---- MODULE Spec2Model ----
(***************************************************************************)
(* JanVedha-AI decision pipeline: hybrid priority scorer and online model, *)
(* complaint classifier with keyword fallback, pipeline orchestrator and   *)
(* ticket creation.                                                        *)
(*                                                                         *)
(* Conventions                                                             *)
(*  - Text (descriptions, keywords) is a sequence of one-character         *)
(*    strings, so that Python's `kw in text` is a real substring search.   *)
(*    A non-ASCII code point is the symbol "U+XXXX".                       *)
(*  - Scores are integers in hundredths of a point (74.0 is 7400); the     *)
(*    argument of round(x, 2) is in ten-thousandths.                       *)
(*  - Confidences are integers in hundredths (0.65 is 65).                 *)
(*  - Python None is the string "None".                                    *)
(***************************************************************************)
EXTENDS Integers, Sequences, FiniteSets, TLC

None == "None"

Min(a, b) == IF a <= b THEN a ELSE b

Abs(a) == IF a >= 0 THEN a ELSE 0 - a

(***************************************************************************)
(* Text helpers: str.lower() and the `in` substring operator.              *)
(***************************************************************************)
UpperToLower ==
  [c \in {"A","B","C","D","E","F","G","H","I","J","K","L","M",
          "N","O","P","Q","R","S","T","U","V","W","X","Y","Z"} |->
     CASE c = "A" -> "a" [] c = "B" -> "b" [] c = "C" -> "c" [] c = "D" -> "d"
       [] c = "E" -> "e" [] c = "F" -> "f" [] c = "G" -> "g" [] c = "H" -> "h"
       [] c = "I" -> "i" [] c = "J" -> "j" [] c = "K" -> "k" [] c = "L" -> "l"
       [] c = "M" -> "m" [] c = "N" -> "n" [] c = "O" -> "o" [] c = "P" -> "p"
       [] c = "Q" -> "q" [] c = "R" -> "r" [] c = "S" -> "s" [] c = "T" -> "t"
       [] c = "U" -> "u" [] c = "V" -> "v" [] c = "W" -> "w" [] c = "X" -> "x"
       [] c = "Y" -> "y" [] c = "Z" -> "z"]

Lower(text) ==
  [i \in 1..Len(text) |->
     IF text[i] \in DOMAIN UpperToLower THEN UpperToLower[text[i]] ELSE text[i]]

\* Python `kw in text`
Contains(kw, text) ==
  \/ kw = <<>>
  \/ \E i \in 1..(Len(text) - Len(kw) + 1) :
       text[i] = kw[1] /\ SubSeq(text, i, i + Len(kw) - 1) = kw

(***************************************************************************)
(* Rule engine (priority_agent.py)                                         *)
(***************************************************************************)
SEVERITY_MAP ==
  [c \in {"street_light_out", "multiple_lights_out", "electrical_spark_hazard",
          "electrical_hazard", "small_pothole", "large_pothole", "pothole",
          "road_collapse", "bridge_crack", "low_pressure", "no_water_supply", "water",
          "dirty_water", "burst_pipe_flooding", "drain_blocked", "sewage_overflow",
          "open_manhole", "sewage", "missed_collection_once", "overflowing_bin",
          "garbage", "dead_animal_carcass", "illegal_dumping_large",
          "mosquito_breeding", "stray_dog_bite", "stray", "disease_outbreak_concern",
          "flood", "flooding", "fire", "accident", "collapse", "default"} |->
     CASE c = "street_light_out" -> 15 [] c = "multiple_lights_out" -> 22
       [] c = "electrical_spark_hazard" -> 30 [] c = "electrical_hazard" -> 30
       [] c = "small_pothole" -> 12 [] c = "large_pothole" -> 20 [] c = "pothole" -> 16
       [] c = "road_collapse" -> 28 [] c = "bridge_crack" -> 30
       [] c = "low_pressure" -> 14 [] c = "no_water_supply" -> 22 [] c = "water" -> 16
       [] c = "dirty_water" -> 25 [] c = "burst_pipe_flooding" -> 30
       [] c = "drain_blocked" -> 18 [] c = "sewage_overflow" -> 26
       [] c = "open_manhole" -> 30 [] c = "sewage" -> 20
       [] c = "missed_collection_once" -> 10 [] c = "overflowing_bin" -> 16
       [] c = "garbage" -> 14 [] c = "dead_animal_carcass" -> 22
       [] c = "illegal_dumping_large" -> 20 [] c = "mosquito_breeding" -> 18
       [] c = "stray_dog_bite" -> 28 [] c = "stray" -> 18
       [] c = "disease_outbreak_concern" -> 30 [] c = "flood" -> 28
       [] c = "flooding" -> 28 [] c = "fire" -> 30 [] c = "accident" -> 28
       [] c = "collapse" -> 28 [] c = "default" -> 15]

SAFETY_KEYWORDS ==
  <<
    <<"a","c","c","i","d","e","n","t">>, <<"d","a","n","g","e","r">>, <<"h","a","z","a","r","d">>,
    <<"f","i","r","e">>, <<"e","l","e","c","t","r","i","c"," ","s","h","o","c","k">>,
    <<"c","h","i","l","d"," ","f","e","l","l">>, <<"i","n","j","u","r","y">>,
    <<"d","e","a","t","h">>, <<"h","o","s","p","i","t","a","l">>,
    <<"e","m","e","r","g","e","n","c","y">>, <<"f","l","o","o","d">>,
    <<"c","o","l","l","a","p","s","e">>, <<"s","n","a","k","e">>, <<"r","a","b","i","e","s">>,
    <<"e","p","i","d","e","m","i","c">>,
    <<"U+0BB5","U+0BBF","U+0BAA","U+0BA4","U+0BCD","U+0BA4","U+0BC1">>,
    <<"U+0B86","U+0BAA","U+0BA4","U+0BCD","U+0BA4","U+0BC1">>, <<"U+0906","U+0917">>,
    <<"U+0916","U+0924","U+0930","U+093E">>,
    <<"U+0C2A","U+0C4D","U+0C30","U+0C2E","U+0C3E","U+0C26","U+0C02">>
  >>

\* any(kw.lower() in description.lower() for kw in SAFETY_KEYWORDS)
SafetyKeywordSearch(description) ==
  LET d == Lower(description)
  IN  \E k \in 1..Len(SAFETY_KEYWORDS) : Contains(Lower(SAFETY_KEYWORDS[k]), d)

(***************************************************************************)
(* Descriptions of the scoring calls                                          *)
(***************************************************************************)
\* "Large pothole on Anna Salai causing accidents near school, multiple people reported"
ReferenceDescription ==
  <<"L","a","r","g","e"," ","p","o","t","h","o","l","e"," ","o","n">>
  \o <<" ","A","n","n","a"," ","S","a","l","a","i"," ">>
  \o <<"c","a","u","s","i","n","g"," ">>
  \o <<"a","c","c","i","d","e","n","t","s"," ","n","e","a","r"," ">>
  \o <<"s","c","h","o","o","l",","," ","m","u","l","t","i","p","l","e">>
  \o <<" ","p","e","o","p","l","e"," ","r","e","p","o","r","t","e","d">>

\* "Street lamp is off"  (no safety keyword)
PlainDescription ==
  <<"S","t","r","e","e","t"," ","l","a","m","p"," ","i","s"," ">>
  \o <<"o","f","f">>

Descriptions == {ReferenceDescription, PlainDescription}

\* The search, tabulated once over the descriptions the calls use
SafetyKeywordTable == [d \in Descriptions |-> SafetyKeywordSearch(d)]

HasSafetyKeyword(description) ==
  IF description \in Descriptions THEN SafetyKeywordTable[description]
  ELSE SafetyKeywordSearch(description)

location_scores ==
  [l \in {"main_road", "hospital_vicinity", "school_vicinity", "market",
          "residential", "internal_street", "unknown"} |->
     CASE l = "main_road" -> 10 [] l = "hospital_vicinity" -> 10
       [] l = "school_vicinity" -> 9 [] l = "market" -> 8 [] l = "residential" -> 5
       [] l = "internal_street" -> 3 [] l = "unknown" -> 4]

\* Mutant of SeverityFactor: the bonus is given only when the description is a keyword.
SeverityFactor_ExactKeyword(issue_category, description) ==
  LET base == IF issue_category \in DOMAIN SEVERITY_MAP
              THEN SEVERITY_MAP[issue_category] ELSE SEVERITY_MAP["default"]
      safety_bonus == IF \E k \in 1..Len(SAFETY_KEYWORDS) :
                            Lower(SAFETY_KEYWORDS[k]) = Lower(description)
                      THEN 5 ELSE 0
  IN  Min(30, base + safety_bonus)

\* Mutant of SeverityFactor: the factor is not capped at 30.
SeverityFactor_Uncapped(issue_category, description) ==
  LET base == IF issue_category \in DOMAIN SEVERITY_MAP
              THEN SEVERITY_MAP[issue_category] ELSE SEVERITY_MAP["default"]
      safety_bonus == IF HasSafetyKeyword(description) THEN 5 ELSE 0
  IN  base + safety_bonus

\* The five additive factors of _rule_score, in points.
SeverityFactor(issue_category, description) ==
  LET base == IF issue_category \in DOMAIN SEVERITY_MAP
              THEN SEVERITY_MAP[issue_category] ELSE SEVERITY_MAP["default"]
      safety_bonus == IF HasSafetyKeyword(description) THEN 5 ELSE 0
  IN  Min(30, base + safety_bonus)

ImpactFactor(report_count, location_type) ==
  Min(15, report_count * 3)
    + (IF location_type \in DOMAIN location_scores THEN location_scores[location_type] ELSE 4)

TimeFactor(days_open) ==
  IF days_open <= 1 THEN 0
  ELSE IF days_open <= 3 THEN 5
  ELSE IF days_open <= 7 THEN 10
  ELSE IF days_open <= 14 THEN 15
  ELSE 20

SlaFactor(hours_until_sla_breach) ==
  IF hours_until_sla_breach <= 0 THEN 15
  ELSE IF hours_until_sla_breach <= 6 THEN 12
  ELSE IF hours_until_sla_breach <= 24 THEN 8
  ELSE IF hours_until_sla_breach <= 48 THEN 4
  ELSE 0

SocialFactor(social_media_mentions) ==
  IF social_media_mentions > 100 THEN 10
  ELSE IF social_media_mentions > 50 THEN 7
  ELSE IF social_media_mentions > 10 THEN 4
  ELSE 0

\* _score_to_label, on a score in hundredths
ScoreToLabel(score) ==
  IF score >= 8000 THEN "CRITICAL"
  ELSE IF score >= 6000 THEN "HIGH"
  ELSE IF score >= 3500 THEN "MEDIUM"
  ELSE "LOW"

\* Python round(x, 2): x in ten-thousandths, result in hundredths, ties to even.
Round2(x) ==
  LET q == x \div 100
      r == x % 100
  IN  IF r < 50 THEN q
      ELSE IF r > 50 THEN q + 1
      ELSE IF q % 2 = 0 THEN q ELSE q + 1

(***************************************************************************)
(* Classifier (classifier_agent.py)                                        *)
(***************************************************************************)
\* DEPARTMENT_CATALOGUE, in the dict's insertion order
DEPARTMENT_CATALOGUE ==
  <<
    [dept_id |-> "D01", name |-> "Roads & Bridges", keywords |->
      <<
        <<"p","o","t","h","o","l","e">>, <<"r","o","a","d">>, <<"b","r","i","d","g","e">>,
        <<"f","o","o","t","p","a","t","h">>, <<"p","a","v","e","m","e","n","t">>,
        <<"c","r","a","c","k">>, <<"s","p","e","e","d"," ","b","r","e","a","k","e","r">>
      >>],
    [dept_id |-> "D02", name |-> "Buildings & Planning", keywords |->
      <<
        <<"c","o","n","s","t","r","u","c","t","i","o","n">>, <<"i","l","l","e","g","a","l">>,
        <<"e","n","c","r","o","a","c","h","m","e","n","t">>, <<"b","u","i","l","d","i","n","g">>,
        <<"p","e","r","m","i","t">>
      >>],
    [dept_id |-> "D03", name |-> "Water Supply", keywords |->
      <<
        <<"w","a","t","e","r">>, <<"s","u","p","p","l","y">>, <<"p","i","p","e">>,
        <<"l","e","a","k">>, <<"l","o","w"," ","p","r","e","s","s","u","r","e">>,
        <<"n","o"," ","w","a","t","e","r">>, <<"d","i","r","t","y"," ","w","a","t","e","r">>
      >>],
    [dept_id |-> "D04", name |-> "Sewage & Drainage", keywords |->
      <<
        <<"s","e","w","a","g","e">>, <<"d","r","a","i","n">>, <<"b","l","o","c","k","e","d">>,
        <<"o","v","e","r","f","l","o","w">>, <<"m","a","n","h","o","l","e">>,
        <<"s","t","e","n","c","h">>
      >>],
    [dept_id |-> "D05", name |-> "Solid Waste Management", keywords |->
      <<
        <<"g","a","r","b","a","g","e">>, <<"w","a","s","t","e">>, <<"b","i","n">>,
        <<"c","o","l","l","e","c","t","i","o","n">>, <<"d","u","m","p","i","n","g">>,
        <<"l","i","t","t","e","r">>, <<"t","r","a","s","h">>
      >>],
    [dept_id |-> "D06", name |-> "Street Lighting", keywords |->
      <<
        <<"l","i","g","h","t">>, <<"l","a","m","p">>, <<"d","a","r","k">>,
        <<"s","t","r","e","e","t"," ","l","i","g","h","t">>,
        <<"e","l","e","c","t","r","i","c","i","t","y">>, <<"b","u","l","b">>
      >>],
    [dept_id |-> "D07", name |-> "Parks & Greenery", keywords |->
      <<
        <<"p","a","r","k">>, <<"t","r","e","e">>, <<"g","a","r","d","e","n">>,
        <<"g","r","a","s","s">>, <<"p","l","a","y","g","r","o","u","n","d">>,
        <<"f","a","l","l","e","n"," ","t","r","e","e">>
      >>],
    [dept_id |-> "D08", name |-> "Health & Sanitation", keywords |->
      <<
        <<"m","o","s","q","u","i","t","o">>, <<"d","e","n","g","u","e">>, <<"f","e","v","e","r">>,
        <<"e","p","i","d","e","m","i","c">>, <<"s","t","r","a","y">>, <<"d","o","g">>,
        <<"b","i","t","e">>, <<"d","e","a","d"," ","a","n","i","m","a","l">>
      >>],
    [dept_id |-> "D09", name |-> "Fire & Emergency", keywords |->
      <<
        <<"f","i","r","e">>, <<"a","c","c","i","d","e","n","t">>,
        <<"e","m","e","r","g","e","n","c","y">>, <<"e","x","p","l","o","s","i","o","n">>,
        <<"h","a","z","a","r","d">>, <<"c","o","l","l","a","p","s","e">>
      >>],
    [dept_id |-> "D10", name |-> "Traffic & Transport", keywords |->
      <<
        <<"t","r","a","f","f","i","c">>, <<"s","i","g","n","a","l">>, <<"b","u","s">>,
        <<"r","o","a","d"," ","b","l","o","c","k">>, <<"p","a","r","k","i","n","g">>,
        <<"v","e","h","i","c","l","e">>
      >>],
    [dept_id |-> "D11", name |-> "Revenue & Property", keywords |->
      <<
        <<"t","a","x">>, <<"p","r","o","p","e","r","t","y">>, <<"d","o","c","u","m","e","n","t">>,
        <<"c","e","r","t","i","f","i","c","a","t","e">>
      >>],
    [dept_id |-> "D12", name |-> "Social Welfare", keywords |->
      <<
        <<"p","e","n","s","i","o","n">>, <<"w","e","l","f","a","r","e">>,
        <<"d","i","s","a","b","i","l","i","t","y">>, <<"r","a","t","i","o","n">>,
        <<"s","u","b","s","i","d","y">>
      >>],
    [dept_id |-> "D13", name |-> "Education", keywords |->
      <<
        <<"s","c","h","o","o","l">>, <<"t","e","a","c","h","e","r">>,
        <<"e","d","u","c","a","t","i","o","n">>, <<"c","o","l","l","e","g","e">>,
        <<"s","t","u","d","e","n","t">>
      >>],
    [dept_id |-> "D14", name |-> "Disaster Management", keywords |->
      <<
        <<"f","l","o","o","d">>, <<"c","y","c","l","o","n","e">>,
        <<"l","a","n","d","s","l","i","d","e">>, <<"t","s","u","n","a","m","i">>,
        <<"d","i","s","a","s","t","e","r">>, <<"r","e","l","i","e","f">>
      >>]
  >>

CatalogueIndex(dept_id) ==
  CHOOSE i \in 1..Len(DEPARTMENT_CATALOGUE) : DEPARTMENT_CATALOGUE[i].dept_id = dept_id

\* sum(1 for kw in info["keywords"] if kw in text_lower), for the i-th catalogue entry
KeywordScore(i, text_lower) ==
  Cardinality({k \in 1..Len(DEPARTMENT_CATALOGUE[i].keywords) :
                 Contains(DEPARTMENT_CATALOGUE[i].keywords[k], text_lower)})

\* Mutant of ScanCatalogue: a later entry with an equal score replaces the best one.
RECURSIVE ScanCatalogue_LastWins(_, _, _, _)
ScanCatalogue_LastWins(i, best_dept, best_score, text_lower) ==
  IF i > Len(DEPARTMENT_CATALOGUE) THEN [best_dept |-> best_dept, best_score |-> best_score]
  ELSE LET score == KeywordScore(i, text_lower)
       IN  IF score >= best_score
             THEN ScanCatalogue_LastWins(i + 1, DEPARTMENT_CATALOGUE[i].dept_id, score, text_lower)
             ELSE ScanCatalogue_LastWins(i + 1, best_dept, best_score, text_lower)

\* The loop of _keyword_fallback from the i-th catalogue entry on
RECURSIVE ScanCatalogue(_, _, _, _)
ScanCatalogue(i, best_dept, best_score, text_lower) ==
  IF i > Len(DEPARTMENT_CATALOGUE) THEN [best_dept |-> best_dept, best_score |-> best_score]
  ELSE LET score == KeywordScore(i, text_lower)
       IN  IF score > best_score
             THEN ScanCatalogue(i + 1, DEPARTMENT_CATALOGUE[i].dept_id, score, text_lower)
             ELSE ScanCatalogue(i + 1, best_dept, best_score, text_lower)

GenericQuestion == "Could you describe the issue in more detail?"

\* Mutant of keyword_fallback: the text is matched without lower-casing.
keyword_fallback_CaseSensitive(text) ==
  LET best == ScanCatalogue(1, "D05", 0, text)
  IN  [path |-> "fallback",
       dept_id |-> best.best_dept,
       dept_name |-> DEPARTMENT_CATALOGUE[CatalogueIndex(best.best_dept)].name,
       issue_category |-> "general_complaint",
       confidence |-> IF best.best_score > 0 THEN 60 ELSE 40,
       needs_clarification |-> (best.best_score = 0),
       clarification_question |-> IF best.best_score = 0 THEN GenericQuestion ELSE None,
       requires_human_review |-> TRUE]

\* Mutant of keyword_fallback: the question is attached to the wrong branch.
keyword_fallback_QuestionOnHit(text) ==
  LET best == ScanCatalogue(1, "D05", 0, Lower(text))
  IN  [path |-> "fallback",
       dept_id |-> best.best_dept,
       dept_name |-> DEPARTMENT_CATALOGUE[CatalogueIndex(best.best_dept)].name,
       issue_category |-> "general_complaint",
       confidence |-> IF best.best_score > 0 THEN 60 ELSE 40,
       needs_clarification |-> (best.best_score = 0),
       clarification_question |-> IF best.best_score > 0 THEN GenericQuestion ELSE None,
       requires_human_review |-> TRUE]

\* _keyword_fallback
keyword_fallback(text) ==
  LET best == ScanCatalogue(1, "D05", 0, Lower(text))
  IN  [path |-> "fallback",
       dept_id |-> best.best_dept,
       dept_name |-> DEPARTMENT_CATALOGUE[CatalogueIndex(best.best_dept)].name,
       issue_category |-> "general_complaint",
       confidence |-> IF best.best_score > 0 THEN 60 ELSE 40,
       needs_clarification |-> (best.best_score = 0),
       clarification_question |-> IF best.best_score = 0 THEN GenericQuestion ELSE None,
       requires_human_review |-> TRUE]

\* JSON values of a parsed language-model answer; JMissing is an absent key
JMissing == [t |-> "missing"]

JNull == [t |-> "null"]

JStr(s) == [t |-> "str", v |-> s]

JNum(n) == [t |-> "num", v |-> n]

JBool(b) == [t |-> "bool", v |-> b]

\* data.get(key, default)
Get(data, key, default) == IF data[key].t = "missing" THEN default ELSE data[key]

\* the Python value of a JSON null or string
PyValue(j) == IF j.t = "null" THEN None ELSE j.v

\* bool(x)
PyBool(j) ==
  CASE j.t = "null" -> FALSE
    [] j.t = "bool" -> j.v
    [] j.t = "num" -> j.v # 0
    [] j.t = "str" -> j.v # ""

\* float(x) raises TypeError on None and ValueError on a non-numeric string
FloatRaises(j) == j.t \in {"null", "str"}

PyFloat(j) ==
  CASE j.t = "num" -> j.v
    [] j.t = "bool" -> IF j.v THEN 100 ELSE 0

\* What llm.ainvoke + json.loads give: the call raises, the text is not JSON, the JSON
\* is not an object, or it is an object `data`
LLMFailures == {[kind |-> "raises"], [kind |-> "unparsable"], [kind |-> "not_object"]}

LLMObject(data) == [kind |-> "object", data |-> data]

\* classify_complaint
classify_complaint(description, llm) ==
  IF llm.kind # "object" THEN keyword_fallback(description)
  ELSE IF FloatRaises(Get(llm.data, "confidence", JNum(75))) THEN keyword_fallback(description)
  ELSE [path |-> "llm",
        dept_id |-> PyValue(Get(llm.data, "dept_id", JStr("D05"))),
        dept_name |-> PyValue(Get(llm.data, "dept_name", JStr("Solid Waste Management"))),
        issue_category |-> PyValue(Get(llm.data, "issue_category", JStr("general_complaint"))),
        confidence |-> PyFloat(Get(llm.data, "confidence", JNum(75))),
        needs_clarification |-> PyBool(Get(llm.data, "needs_clarification", JBool(FALSE))),
        clarification_question |-> PyValue(Get(llm.data, "clarification_question", JNull)),
        requires_human_review |-> PyBool(Get(llm.data, "requires_human_review", JBool(FALSE)))]

(***************************************************************************)
(* Routing, suggestions and the memory gate (routing_agent.py,             *)
(* suggestion_agent.py, memory_agent.py)                                   *)
(***************************************************************************)
\* Mutant of route_complaint: the fallback routes to the default department.
route_complaint_FallbackToDefault(description, classification, llm) ==
  IF llm.kind # "object"
    THEN [dept_id |-> "D05",
          dept_name |-> "Solid Waste Management",
          routing_confirmed |-> TRUE,
          routing_reason |-> "Routing accepted from classifier (routing agent unavailable).",
          escalation_required |-> FALSE,
          escalation_reason |-> None]
  ELSE [dept_id |-> IF llm.data.dept_id.t = "missing" THEN classification.dept_id
                    ELSE PyValue(llm.data.dept_id),
        dept_name |-> IF llm.data.dept_name.t = "missing" THEN classification.dept_name
                      ELSE PyValue(llm.data.dept_name),
        routing_confirmed |-> PyBool(Get(llm.data, "routing_confirmed", JBool(TRUE))),
        routing_reason |-> PyValue(Get(llm.data, "routing_reason",
                                       JStr("Routing confirmed by AI."))),
        escalation_required |-> PyBool(Get(llm.data, "escalation_required", JBool(FALSE))),
        escalation_reason |-> PyValue(Get(llm.data, "escalation_reason", JNull))]

\* route_complaint
route_complaint(description, classification, llm) ==
  IF llm.kind # "object"
    THEN [dept_id |-> classification.dept_id,
          dept_name |-> classification.dept_name,
          routing_confirmed |-> TRUE,
          routing_reason |-> "Routing accepted from classifier (routing agent unavailable).",
          escalation_required |-> FALSE,
          escalation_reason |-> None]
  ELSE [dept_id |-> IF llm.data.dept_id.t = "missing" THEN classification.dept_id
                    ELSE PyValue(llm.data.dept_id),
        dept_name |-> IF llm.data.dept_name.t = "missing" THEN classification.dept_name
                      ELSE PyValue(llm.data.dept_name),
        routing_confirmed |-> PyBool(Get(llm.data, "routing_confirmed", JBool(TRUE))),
        routing_reason |-> PyValue(Get(llm.data, "routing_reason",
                                       JStr("Routing confirmed by AI."))),
        escalation_required |-> PyBool(Get(llm.data, "escalation_required", JBool(FALSE))),
        escalation_reason |-> PyValue(Get(llm.data, "escalation_reason", JNull))]

CategoryNames == {"pothole", "general_complaint", "large_pothole", "fire", "missed_collection_once", "unlisted_category", "garbage"}

\* The characters of a category name
Chars ==
  [c \in CategoryNames |->
     CASE c = "pothole" -> <<"p","o","t","h","o","l","e">>
       [] c = "general_complaint" -> <<"g","e","n","e","r","a","l","_","c","o","m","p","l","a","i","n","t">>
       [] c = "large_pothole" -> <<"l","a","r","g","e","_","p","o","t","h","o","l","e">>
       [] c = "fire" -> <<"f","i","r","e">>
       [] c = "missed_collection_once" -> <<"m","i","s","s","e","d","_","c","o","l","l","e","c","t","i","o","n","_","o","n","c","e">>
       [] c = "unlisted_category" -> <<"u","n","l","i","s","t","e","d","_","c","a","t","e","g","o","r","y">>
       [] c = "garbage" -> <<"g","a","r","b","a","g","e">>]

recurring_categories ==
  {
    <<"f","l","o","o","d">>, <<"f","l","o","o","d","i","n","g">>, <<"p","o","t","h","o","l","e">>,
    <<"s","e","w","a","g","e","_","o","v","e","r","f","l","o","w">>,
    <<"d","i","r","t","y","_","w","a","t","e","r">>,
    <<"m","o","s","q","u","i","t","o","_","b","r","e","e","d","i","n","g">>,
    <<"g","a","r","b","a","g","e">>, <<"d","r","a","i","n","_","b","l","o","c","k","e","d">>,
    <<"r","o","a","d","_","c","o","l","l","a","p","s","e">>
  }

\* the keys of _fallback_suggestions' table, in the dict's order
GenericSuggestionKeys ==
  <<
    <<"p","o","t","h","o","l","e">>,
    <<"s","e","w","a","g","e","_","o","v","e","r","f","l","o","w">>,
    <<"s","t","r","e","e","t","_","l","i","g","h","t","_","o","u","t">>,
    <<"g","a","r","b","a","g","e">>, <<"w","a","t","e","r">>
  >>

\* issue_category.lower() raises AttributeError on None
LowerRaises(issue_category) == issue_category = None

\* _should_check_memory raises when it reaches issue_category.lower() on None
should_check_memory_raises(priority_label, issue_category) ==
  /\ priority_label \notin {"CRITICAL", "HIGH"}
  /\ LowerRaises(issue_category)

\* _should_check_memory
should_check_memory(priority_label, issue_category) ==
  \/ priority_label \in {"CRITICAL", "HIGH"}
  \/ \E cat \in recurring_categories : Contains(cat, Lower(Chars[issue_category]))

\* _fallback_suggestions raises when it reaches issue_category.lower() on None
fallback_suggestions_raises(issue_category) == LowerRaises(issue_category)

\* _fallback_suggestions: the list of the first key found in the category, else the
\* priority-dependent generic list; a list is named by where it comes from
fallback_suggestions(issue_category, priority_label) ==
  LET found == {k \in 1..Len(GenericSuggestionKeys) :
                  Contains(GenericSuggestionKeys[k], Lower(Chars[issue_category]))}
  IN  IF found # {}
        THEN [list |-> "category", key |-> CHOOSE k \in found : \A j \in found : k <= j,
              length |-> 3]
      ELSE [list |-> "generic",
            key |-> IF priority_label \in {"CRITICAL", "HIGH"} THEN 1 ELSE 0, length |-> 3]

\* What the suggestion model may answer: a JSON list of at least 3 items, or other JSON
SuggestionAnswers == {[kind |-> "list3"], [kind |-> "other_json"]}

\* generate_suggestions: the list, or "raised" when the fallback itself raises (in the
\* try block the except clause catches it and calls the fallback again)
generate_suggestions(issue_category, priority_label, llm) ==
  IF llm.kind = "list3" THEN [state |-> "done", value |-> [list |-> "llm", key |-> 0, length |-> 3]]
  ELSE IF fallback_suggestions_raises(issue_category) THEN [state |-> "raised"]
  ELSE [state |-> "done", value |-> fallback_suggestions(issue_category, priority_label)]

(***************************************************************************)
(* Online priority model (_PriorityMLModel) and hybrid scorer              *)
(***************************************************************************)
MIN_SAMPLES_TO_USE == 50

RetrainEvery == 10

LABEL_MAP ==
  [l \in {"LOW", "MEDIUM", "HIGH", "CRITICAL"} |->
     CASE l = "LOW" -> 0 [] l = "MEDIUM" -> 1 [] l = "HIGH" -> 2 [] l = "CRITICAL" -> 3]

LABEL_REVERSE ==
  [i \in 0..3 |-> CASE i = 0 -> "LOW" [] i = 1 -> "MEDIUM" [] i = 2 -> "HIGH" [] i = 3 -> "CRITICAL"]

ml_score_map ==
  [l \in {"LOW", "MEDIUM", "HIGH", "CRITICAL"} |->
     CASE l = "LOW" -> 20 [] l = "MEDIUM" -> 50 [] l = "HIGH" -> 70 [] l = "CRITICAL" -> 90]

\* Bounds of the model
MaxSamples == 51

MaxFailures == 1

MaxRestarts == 1

VARIABLES
  clf,            \* _ml_model._clf: 0 is None, n > 0 a classifier fitted on n samples
  sample_count,   \* _ml_model._sample_count
  training_len,   \* len(_ml_model._training_X) = len(_ml_model._training_y)
  models_db,      \* priority_models collection: sequence of PriorityModelMongo documents
  train_pc,       \* where the holder of _ml_model._lock is in add_training_sample
  failures,       \* exceptions raised so far by fit / persistence / load
  restarts,       \* process restarts so far
  prio,           \* the latest calculate_priority call: arguments, locals and result
  cls,            \* the latest classify_complaint call: arguments and ClassificationResult
  run,            \* the create_ticket request being served: its locals and position
  sugg_task,      \* run_pipeline's suggestions_task
  mem_task,       \* run_pipeline's memory_task
  issue_memory,   \* issue_memories collection: sequence of IssueMemoryMongo documents
  tickets,        \* tickets collection: sequence of TicketMongo documents
  runs,           \* create_ticket requests received so far
  rte,            \* the latest route_complaint call: arguments and RoutingResult
  mem_calls,      \* the check_and_update_memory calls made outside a request, in call
                  \* order: arguments, position and locals of each
  prev,           \* an earlier calculate_priority call that its caller kept: the
                  \* arguments and what the rule engine returned
  closers,        \* the train_on_closed_ticket calls made at the same time: the model
                  \* state they started from and the position of each call
  ops,            \* the officers' requests on tickets (change_status, override_priority),
                  \* in call order: arguments, position and the document each one read
  spike           \* the SeasonalPredictor: its model cache, the complaint history and
                  \* the predict_spike calls, in call order

vars == <<clf, sample_count, training_len, models_db, train_pc, failures, restarts, prio, cls,
          run, sugg_task, mem_task, issue_memory, tickets, runs, rte, mem_calls, prev, closers,
          ops, spike>>

\* the records of calls made outside a request
otherCalls == <<rte, mem_calls, prev, closers, ops, spike>>

pipelineVars == <<run, sugg_task, mem_task, issue_memory, tickets, runs>>

\* what the scorer and the online model leave alone
nonPriorityVars == <<cls, otherCalls, pipelineVars>>
nonTrainingVars == <<cls, rte, mem_calls, prev, pipelineVars>>

modelVars == <<clf, sample_count, training_len, models_db, train_pc, failures, restarts>>

\* the online model without the count of failures
trainVars == <<clf, sample_count, training_len, models_db, train_pc, restarts>>

NoCall == [op |-> "none"]

NoTask == [state |-> "none"]

\* Bound of the create_ticket requests
MaxRuns == 1

\* Bound of the check_and_update_memory calls made outside a request
MaxCalls == 2

\* Mutant of predict: the prediction waits while a retrain is between its awaits.
predict_UnderLock ==
  IF train_pc # "idle" THEN {}
  ELSE IF clf = 0 \/ sample_count < MIN_SAMPLES_TO_USE THEN {None}
  ELSE {LABEL_REVERSE[i] : i \in DOMAIN LABEL_REVERSE} \cup {None}

\* Mutant of predict: the minimum-sample gate is missing.
predict_NoSampleGate ==
  IF clf = 0 THEN {None}
  ELSE {LABEL_REVERSE[i] : i \in DOMAIN LABEL_REVERSE} \cup {None}

\* _PriorityMLModel.predict: the set of values it can return in this state. With a
\* usable classifier that is any label, or None when self._clf.predict raises.
predict ==
  IF clf = 0 \/ sample_count < MIN_SAMPLES_TO_USE THEN {None}
  ELSE {LABEL_REVERSE[i] : i \in DOMAIN LABEL_REVERSE} \cup {None}

\* Mutant of PriorityOutcome: the blended score keeps the rule label.
PriorityOutcome_KeepsRuleLabel(rule_score, ml_label) ==
  LET rule_label == ScoreToLabel(rule_score)
      ml_score == 100 * (IF ml_label \in DOMAIN ml_score_map THEN ml_score_map[ml_label] ELSE 50)
      blended_score == Round2(60 * rule_score + 40 * ml_score)
  IN  IF ml_label = None
        THEN [score |-> Round2(100 * rule_score), label |-> rule_label, source |-> "rules"]
      ELSE IF Abs(rule_score - ml_score) <= 2000
        THEN [score |-> Round2(100 * rule_score), label |-> rule_label, source |-> "hybrid"]
      ELSE [score |-> blended_score, label |-> rule_label, source |-> "hybrid"]

\* Mutant of PriorityOutcome: a gap of exactly 20 points is blended.
PriorityOutcome_StrictAgreement(rule_score, ml_label) ==
  LET rule_label == ScoreToLabel(rule_score)
      ml_score == 100 * (IF ml_label \in DOMAIN ml_score_map THEN ml_score_map[ml_label] ELSE 50)
      blended_score == Round2(60 * rule_score + 40 * ml_score)
  IN  IF ml_label = None
        THEN [score |-> Round2(100 * rule_score), label |-> rule_label, source |-> "rules"]
      ELSE IF Abs(rule_score - ml_score) < 2000
        THEN [score |-> Round2(100 * rule_score), label |-> rule_label, source |-> "hybrid"]
      ELSE [score |-> blended_score, label |-> ScoreToLabel(blended_score), source |-> "hybrid"]

\* calculate_priority after the model was asked: (score, label, source)
PriorityOutcome(rule_score, ml_label) ==
  LET rule_label == ScoreToLabel(rule_score)
      ml_score == 100 * (IF ml_label \in DOMAIN ml_score_map THEN ml_score_map[ml_label] ELSE 50)
      blended_score == Round2(60 * rule_score + 40 * ml_score)
  IN  IF ml_label = None
        THEN [score |-> Round2(100 * rule_score), label |-> rule_label, source |-> "rules"]
      ELSE IF Abs(rule_score - ml_score) <= 2000
        THEN [score |-> Round2(100 * rule_score), label |-> rule_label, source |-> "hybrid"]
      ELSE [score |-> blended_score, label |-> ScoreToLabel(blended_score), source |-> "hybrid"]

\* Mutant of RuleScore: a fitted classifier adds 5 points.
RuleScore_WarmModelBonus(issue_category, report_count, location_type, days_open, hours_until_sla_breach, social_media_mentions, description) ==
  100 * Min(100, SeverityFactor(issue_category, description)
                   + ImpactFactor(report_count, location_type)
                   + TimeFactor(days_open)
                   + SlaFactor(hours_until_sla_breach)
                   + SocialFactor(social_media_mentions)
                   + (IF clf # 0 THEN 5 ELSE 0))

\* _rule_score, in hundredths of a point
RuleScore(issue_category, report_count, location_type, days_open, hours_until_sla_breach, social_media_mentions, description) ==
  100 * Min(100, SeverityFactor(issue_category, description)
                   + ImpactFactor(report_count, location_type)
                   + TimeFactor(days_open)
                   + SlaFactor(hours_until_sla_breach)
                   + SocialFactor(social_media_mentions))

calculate_priority(issue_category, description, report_count, location_type, days_open, hours_until_sla_breach, social_media_mentions, ml_label) ==
  LET rule_score == RuleScore(issue_category, report_count, location_type, days_open,
                              hours_until_sla_breach, social_media_mentions, description)
      res == PriorityOutcome(rule_score, ml_label)
  IN  /\ prio = NoCall
      /\ ml_label \in predict
      /\ prio' = [op |-> "calculate_priority",
                  issue_category |-> issue_category, description |-> description,
                  report_count |-> report_count, location_type |-> location_type,
                  days_open |-> days_open, hours_until_sla_breach |-> hours_until_sla_breach,
                  social_media_mentions |-> social_media_mentions,
                  rule_score |-> rule_score, rule_label |-> ScoreToLabel(rule_score),
                  ml_label |-> ml_label,
                  score |-> res.score, label |-> res.label, source |-> res.source]
      /\ UNCHANGED modelVars

\* calculate_priority has no await: its caller has the result before any other
\* coroutine runs, and the call record is dropped.
PriorityReturned ==
  /\ prio # NoCall
  /\ prio' = NoCall
  /\ UNCHANGED <<modelVars, nonPriorityVars>>

(***************************************************************************)
(* add_training_sample: one holder of the lock at a time; the two awaits   *)
(* on the store are points where other coroutines run.                     *)
(***************************************************************************)
\* Mutant of LockFree: add_training_sample without its lock.
LockFree_NoLock == TRUE

\* async with self._lock: the lock is free when no call is between the section's awaits
LockFree == train_pc = "idle"

\* async with self._lock: append, count, and (every 10th sample) fit + dump
TrainAppendOk ==
  /\ LockFree
  /\ sample_count < MaxSamples
  /\ training_len' = training_len + 1
  /\ sample_count' = sample_count + 1
  /\ IF (sample_count + 1) % RetrainEvery = 0
       THEN /\ clf' = training_len + 1            \* clf.fit(X, y) on the whole buffer
            /\ train_pc' = "update"
       ELSE UNCHANGED <<clf, train_pc>>
  /\ prio = NoCall
  /\ UNCHANGED <<nonTrainingVars, prio, models_db, failures, restarts>>

\* the same, when clf.fit or joblib.dump raises: logged, lock released
TrainAppendRaises ==
  /\ LockFree
  /\ sample_count < MaxSamples
  /\ (sample_count + 1) % RetrainEvery = 0
  /\ failures < MaxFailures
  /\ failures' = failures + 1
  /\ training_len' = training_len + 1
  /\ sample_count' = sample_count + 1
  /\ prio = NoCall
  /\ UNCHANGED <<nonTrainingVars, prio, clf, train_pc, models_db, restarts>>

\* add_training_sample called on its own, up to its first await or its end
TrainAppend == (TrainAppendOk \/ TrainAppendRaises) /\ UNCHANGED <<closers, ops, spike>>

\* await PriorityModelMongo.find(is_active == True).update({"$set": {"is_active": False}})
TrainDeactivateOk ==
  /\ train_pc = "update"
  /\ models_db' = [i \in 1..Len(models_db) |-> [models_db[i] EXCEPT !.is_active = FALSE]]
  /\ train_pc' = "insert"
  /\ prio = NoCall
  /\ UNCHANGED <<nonTrainingVars, prio, clf, sample_count, training_len, failures, restarts>>

\* the update raises: logged, lock released, nothing inserted
TrainDeactivateRaises ==
  /\ train_pc = "update"
  /\ failures < MaxFailures
  /\ failures' = failures + 1
  /\ train_pc' = "idle"
  /\ prio = NoCall
  /\ UNCHANGED <<nonTrainingVars, prio, clf, sample_count, training_len, models_db, restarts>>

TrainDeactivate == (TrainDeactivateOk \/ TrainDeactivateRaises) /\ UNCHANGED <<closers, ops, spike>>

\* await new_doc.insert()
TrainInsertOk ==
  /\ train_pc = "insert"
  /\ models_db' = Append(models_db, [model_bytes |-> clf, sample_count |-> sample_count,
                                     is_active |-> TRUE])
  /\ train_pc' = "idle"
  /\ prio = NoCall
  /\ UNCHANGED <<nonTrainingVars, prio, clf, sample_count, training_len, failures, restarts>>

\* the insert raises: logged, lock released
TrainInsertRaises ==
  /\ train_pc = "insert"
  /\ failures < MaxFailures
  /\ failures' = failures + 1
  /\ train_pc' = "idle"
  /\ prio = NoCall
  /\ UNCHANGED <<nonTrainingVars, prio, clf, sample_count, training_len, models_db, restarts>>

TrainInsert == (TrainInsertOk \/ TrainInsertRaises) /\ UNCHANGED <<closers, ops, spike>>

\* Process start: _PriorityMLModel() then lifespan's load_priority_model()
load_from_db ==
  /\ restarts < MaxRestarts
  /\ restarts' = restarts + 1
  /\ train_pc' = "idle"
  /\ training_len' = 0            \* PriorityModelMongo has no training_X field to restore
  /\ \/ \E i \in 1..Len(models_db) :
          /\ models_db[i].is_active
          /\ models_db[i].model_bytes # 0
          /\ clf' = models_db[i].model_bytes
          /\ sample_count' = models_db[i].sample_count
          /\ UNCHANGED failures
     \/ /\ \A i \in 1..Len(models_db) : ~models_db[i].is_active
        /\ clf' = 0
        /\ sample_count' = 0
        /\ UNCHANGED failures
     \/ /\ failures < MaxFailures   \* the store is unreachable: warning logged
        /\ failures' = failures + 1
        /\ clf' = 0
        /\ sample_count' = 0
  /\ prio = NoCall
  /\ UNCHANGED <<nonPriorityVars, prio, models_db>>

(***************************************************************************)
(* Inputs of the scoring calls                                             *)
(***************************************************************************)
\* base severity 20, 10, 30 and the default 15 of a category missing from SEVERITY_MAP
Categories == {"large_pothole", "missed_collection_once", "fire", "unlisted_category"}

ReportCounts == {0, 1, 5}

LocationTypes == {"main_road", "school_vicinity", "internal_street"}

DaysOpenValues == {0, 2, 7, 15}

SlaHoursValues == {0, 6, 20, 168}

SocialMentionValues == {0, 11, 60, 101}

\* (report_count, location_type, days_open, hours_until_sla_breach, social_media_mentions):
\* the reference scenario, run_pipeline's fixed arguments, and an old breached viral ticket
ScoreProfiles ==
  { <<5, "school_vicinity", 2, 20, 60>>,
    <<1, "unknown", 0, 168, 0>>,
    <<6, "main_road", 15, 0, 101>> }

ProfileCategories == {"large_pothole", "unlisted_category"}

\* A scoring call on one of the profiles
ScoreCall ==
  /\ prio = NoCall
  /\ \E c \in ProfileCategories, d \in Descriptions, p \in ScoreProfiles, ml \in predict :
       calculate_priority(c, d, p[1], p[2], p[3], p[4], p[5], ml)
  /\ UNCHANGED nonPriorityVars

\* A scoring call on any combination of the input values
ScoreAny ==
  /\ prio = NoCall
  /\ \E c \in Categories, d \in Descriptions, rc \in ReportCounts, l \in LocationTypes,
        dz \in DaysOpenValues, h \in SlaHoursValues, s \in SocialMentionValues,
        ml \in predict :
       calculate_priority(c, d, rc, l, dz, h, s, ml)
  /\ UNCHANGED nonPriorityVars

Init ==
  /\ clf = 0
  /\ sample_count = 0
  /\ training_len = 0
  /\ models_db = <<>>
  /\ train_pc = "idle"
  /\ failures = 0
  /\ restarts = 0
  /\ prio = NoCall
  /\ cls = NoCall
  /\ run = NoCall
  /\ sugg_task = NoTask
  /\ mem_task = NoTask
  /\ issue_memory = <<>>
  /\ tickets = <<>>
  /\ runs = 0
  /\ rte = NoCall
  /\ mem_calls = <<>>
  /\ prev = NoCall
  /\ closers = NoCall
  /\ ops = <<>>
  /\ spike = NoCall

\* The scorer and the whole life cycle of the online model
Next ==
  \/ ScoreCall
  \/ PriorityReturned
  \/ TrainAppend
  \/ TrainDeactivate
  \/ TrainInsert
  \/ load_from_db

Spec == Init /\ [][Next]_vars

\* The scorer on the full input grid, over a model that trains without failures
NextScore ==
  \/ ScoreAny
  \/ PriorityReturned
  \/ TrainAppendOk /\ UNCHANGED <<closers, ops, spike>>
  \/ TrainDeactivateOk /\ UNCHANGED <<closers, ops, spike>>
  \/ TrainInsertOk /\ UNCHANGED <<closers, ops, spike>>

SpecScore == Init /\ [][NextScore]_vars

(***************************************************************************)
(* train_on_closed_ticket called several times at once: every call is a    *)
(* coroutine of the one event loop, waiting for the lock of                *)
(* add_training_sample or inside its section.                              *)
(***************************************************************************)
MaxClosers == 12

Closers == 1..MaxClosers

\* the position of one call changes
CloserMoves(i, pc) ==
  /\ closers' = [closers EXCEPT !.pc[i] = pc]
  /\ UNCHANGED <<ops, spike>>

\* a waiting call takes the lock and runs to the first await of the section, or to the
\* end of the call when the sample is not a 10th one or the fit raises
CloserAppend(i) ==
  /\ closers.pc[i] = "waiting"
  /\ \/ /\ TrainAppendOk
        /\ CloserMoves(i, IF sample_count' % RetrainEvery = 0 THEN "inside" ELSE "done")
     \/ /\ TrainAppendRaises
        /\ CloserMoves(i, "done")

\* the call in the section resumes from its await of the update
CloserDeactivate(i) ==
  /\ closers.pc[i] = "inside"
  /\ \/ /\ TrainDeactivateOk
        /\ UNCHANGED <<closers, ops, spike>>
     \/ /\ TrainDeactivateRaises
        /\ CloserMoves(i, "done")

\* the call in the section resumes from its await of the insert and releases the lock
CloserInsert(i) ==
  /\ closers.pc[i] = "inside"
  /\ (TrainInsertOk \/ TrainInsertRaises)
  /\ CloserMoves(i, "done")

\* the model after 8 closures, and after 18 closures with the retrain of the 10th
\* persisted
ModelsBefore ==
  { [sample_count |-> 8, training_len |-> 8, clf |-> 0, models_db |-> <<>>],
    [sample_count |-> 18, training_len |-> 18, clf |-> 10,
     models_db |-> <<[model_bytes |-> 10, sample_count |-> 10, is_active |-> TRUE]>>] }

\* MaxClosers tickets are closed at once in a process that has trained without failure
InitTrain ==
  /\ \E before \in ModelsBefore :
       /\ sample_count = before.sample_count
       /\ training_len = before.training_len
       /\ clf = before.clf
       /\ models_db = before.models_db
       /\ closers = [op |-> "train_on_closed_ticket", before |-> before,
                     pc |-> [i \in Closers |-> "waiting"]]
  /\ train_pc = "idle"
  /\ failures = 0
  /\ restarts = 0
  /\ prio = NoCall
  /\ cls = NoCall
  /\ run = NoCall
  /\ sugg_task = NoTask
  /\ mem_task = NoTask
  /\ issue_memory = <<>>
  /\ tickets = <<>>
  /\ runs = 0
  /\ rte = NoCall
  /\ mem_calls = <<>>
  /\ prev = NoCall
  /\ ops = <<>>
  /\ spike = NoCall

AppendStep == \E i \in Closers : CloserAppend(i)

DeactivateStep == \E i \in Closers : CloserDeactivate(i)

InsertStep == \E i \in Closers : CloserInsert(i)

NextTrain ==
  \/ AppendStep
  \/ DeactivateStep
  \/ InsertStep

SpecTrain == InitTrain /\ [][NextTrain]_vars

(***************************************************************************)
(* Scoring calls whose results are kept for comparison                     *)
(***************************************************************************)
\* what the rule engine was given, as calculate_priority passes it on
RuleArguments(call) ==
  <<call.issue_category, call.report_count, call.location_type, call.days_open,
    call.hours_until_sla_breach, call.social_media_mentions, call.description>>

\* the caller of calculate_priority keeps the rule engine's arguments and result
PriorityRemembered ==
  /\ prio # NoCall
  /\ prev' = [op |-> "kept", arguments |-> RuleArguments(prio),
              rule_score |-> prio.rule_score, rule_label |-> prio.rule_label]
  /\ prio' = NoCall
  /\ UNCHANGED <<modelVars, cls, rte, mem_calls, closers, ops, spike, pipelineVars>>

\* the reference scenario and run_pipeline's fixed arguments
RepeatedProfiles == { <<5, "school_vicinity", 2, 20, 60>>, <<1, "unknown", 0, 168, 0>> }

\* A scoring call that may repeat an earlier one
ScoreAgain ==
  /\ prio = NoCall
  /\ \E c \in ProfileCategories, p \in RepeatedProfiles, ml \in predict :
       calculate_priority(c, ReferenceDescription, p[1], p[2], p[3], p[4], p[5], ml)
  /\ UNCHANGED nonPriorityVars

\* Repeated scoring over the whole life cycle of the online model
NextRepeat ==
  \/ ScoreAgain
  \/ PriorityRemembered
  \/ PriorityReturned
  \/ TrainAppend
  \/ TrainDeactivate
  \/ TrainInsert
  \/ load_from_db

SpecRepeat == Init /\ [][NextRepeat]_vars

(***************************************************************************)
(* Classifier calls                                                        *)
(***************************************************************************)
ClassifyCall(description, llm) ==
  /\ cls = NoCall
  /\ cls' = [op |-> "classify_complaint", description |-> description,
             result |-> classify_complaint(description, llm)]
  /\ UNCHANGED <<modelVars, prio, otherCalls, pipelineVars>>

\* The caller has the ClassificationResult; the call record is dropped.
ClassificationReturned ==
  /\ cls # NoCall
  /\ cls' = NoCall
  /\ UNCHANGED <<modelVars, prio, otherCalls, pipelineVars>>

\* Bound of the descriptions: at most MaxWords vocabulary words joined by blanks
MaxWords == 3

Vocabulary ==
  {
    <<"p","o","t","h","o","l","e">>, <<"R","o","a","d">>, <<"b","l","o","c","k">>,
    <<"s","t","r","e","e","t">>, <<"l","i","g","h","t">>, <<"p","a","r","k","i","n","g">>,
    <<"g","a","r","b","a","g","e">>, <<"b","i","n">>, <<"w","a","t","e","r">>,
    <<"h","e","l","l","o">>
  }

RECURSIVE JoinWords(_)
JoinWords(ws) ==
  IF Len(ws) = 0 THEN <<>>
  ELSE IF Len(ws) = 1 THEN ws[1]
  ELSE ws[1] \o <<" ">> \o JoinWords(Tail(ws))

ClassifierDescriptions ==
  {JoinWords(ws) : ws \in UNION {[1..n -> Vocabulary] : n \in 0..MaxWords}} \cup Descriptions

\* The objects a language model may answer with
ClassifierObjects ==
  [dept_id : {JMissing, JNull, JStr("D01")},
   dept_name : {JMissing, JStr("Roads & Bridges")},
   issue_category : {JMissing, JNull, JStr("pothole")},
   confidence : {JMissing, JNull, JNum(64), JNum(65), JNum(74), JNum(75)},
   needs_clarification : {JMissing, JBool(TRUE), JBool(FALSE)},
   clarification_question : {JMissing, JNull, JStr("Which street is it?")},
   requires_human_review : {JMissing, JBool(TRUE), JBool(FALSE)}]

\* classify_complaint when the language model answers with a JSON object
ClassifyAnswered ==
  /\ cls = NoCall
  /\ \E d \in Descriptions, data \in ClassifierObjects : ClassifyCall(d, LLMObject(data))

\* classify_complaint when the call fails or the answer is unusable
ClassifyUnanswered ==
  /\ cls = NoCall
  /\ \E d \in ClassifierDescriptions, f \in LLMFailures : ClassifyCall(d, f)

NextClassify ==
  \/ ClassifyAnswered
  \/ ClassifyUnanswered
  \/ ClassificationReturned

SpecClassify == Init /\ [][NextClassify]_vars

(***************************************************************************)
(* Router calls                                                            *)
(***************************************************************************)
RouteCall(description, classification, llm) ==
  /\ rte = NoCall
  /\ rte' = [op |-> "route_complaint", description |-> description,
             classification |-> classification, llm |-> llm,
             result |-> route_complaint(description, classification, llm)]
  /\ UNCHANGED <<modelVars, prio, cls, mem_calls, prev, closers, ops, spike, pipelineVars>>

\* The caller has the RoutingResult; the call record is dropped.
RouteReturned ==
  /\ rte # NoCall
  /\ rte' = NoCall
  /\ UNCHANGED <<modelVars, prio, cls, mem_calls, prev, closers, ops, spike, pipelineVars>>

\* the objects the classifier's model may have answered with before a router call
RoutedClassifierObjects ==
  [dept_id : {JMissing, JNull, JStr("D01")},
   dept_name : {JMissing, JStr("Roads & Bridges")},
   issue_category : {JStr("pothole")},
   confidence : {JNum(75)},
   needs_clarification : {JMissing},
   clarification_question : {JMissing},
   requires_human_review : {JMissing}]

\* the ClassificationResults handed to the router
RoutedClassifications ==
  {classify_complaint(d, llm) :
     d \in Descriptions,
     llm \in LLMFailures \cup {LLMObject(o) : o \in RoutedClassifierObjects}}

\* the objects the router's model may answer with in a call
RouterObjects ==
  [dept_id : {JMissing, JNull, JStr("D03")},
   dept_name : {JMissing, JStr("Water Supply")},
   routing_confirmed : {JMissing, JNull, JBool(FALSE)},
   routing_reason : {JMissing, JStr("Water main, not road surface.")},
   escalation_required : {JMissing, JBool(TRUE)},
   escalation_reason : {JMissing, JStr("Flooding risk.")}]

\* route_complaint when the language model answers with a JSON object
RouteAnswered ==
  /\ rte = NoCall
  /\ \E d \in Descriptions, c \in RoutedClassifications, o \in RouterObjects :
       RouteCall(d, c, LLMObject(o))

\* route_complaint when the call fails or the answer is unusable
RouteUnanswered ==
  /\ rte = NoCall
  /\ \E d \in Descriptions, c \in RoutedClassifications, f \in LLMFailures :
       RouteCall(d, c, f)

NextRoute ==
  \/ RouteAnswered
  \/ RouteUnanswered
  \/ RouteReturned

SpecRoute == Init /\ [][NextRoute]_vars

(***************************************************************************)
(* Ticket creation and the pipeline (ticket_service.py, pipeline.py,       *)
(* memory_agent.py). A request is one coroutine; each action runs it, or   *)
(* one of its two tasks, from one await to the next.                       *)
(***************************************************************************)
\* ward_id: Optional[int] = None
NoWard == 0 - 1

\* Python truth of a ward id: None and 0 are false
Truthy(ward_id) == ward_id # NoWard /\ ward_id # 0

\* datetime.utcnow() as read by the memory agent
now == [year |-> 2026, month |-> 11]

current_year == now.year

current_month == now.month

\* the confidence, in hundredths, below which create_ticket asks for clarification
CONFIDENCE_THRESHOLD == 65

\* Mutant of ClarificationRequired: needs_clarification is ignored.
ClarificationRequired_ConfidenceOnly(pipeline_result) ==
  pipeline_result.ai_confidence < CONFIDENCE_THRESHOLD

\* pipeline_result.needs_clarification or pipeline_result.ai_confidence < 0.65
ClarificationRequired(pipeline_result) ==
  pipeline_result.needs_clarification \/ pipeline_result.ai_confidence < CONFIDENCE_THRESHOLD

Pending == [state |-> "pending"]

\* TicketService.create_ticket up to its first await: the consent check, the ticket
\* code, and the call of run_pipeline
create_ticket(description, ward_id, consent_given) ==
  /\ run = NoCall
  /\ runs < MaxRuns
  /\ runs' = runs + 1
  /\ run' = [op |-> "create_ticket", ticket_code |-> runs + 1,
             description |-> description, ward_id |-> ward_id,
             consent_given |-> consent_given,
             pc |-> IF consent_given THEN "classify" ELSE "done",
             outcome |-> IF consent_given THEN None ELSE "consent_required",
             classification |-> NoCall, routing |-> NoCall, priority |-> NoCall,
             result |-> NoCall]
  /\ UNCHANGED <<modelVars, prio, cls, otherCalls, sugg_task, mem_task, issue_memory, tickets>>

\* run_pipeline step 1: await classify_complaint
PipelineClassify(llm) ==
  /\ run # NoCall
  /\ run.pc = "classify"
  /\ run' = [run EXCEPT !.classification = classify_complaint(run.description, llm),
                        !.pc = "route"]
  /\ UNCHANGED <<modelVars, prio, cls, otherCalls, sugg_task, mem_task, issue_memory, tickets, runs>>

\* run_pipeline step 2: await route_complaint
PipelineRoute(llm) ==
  /\ run # NoCall
  /\ run.pc = "route"
  /\ run' = [run EXCEPT !.routing = route_complaint(run.description, run.classification, llm),
                        !.pc = "score"]
  /\ UNCHANGED <<modelVars, prio, cls, otherCalls, sugg_task, mem_task, issue_memory, tickets, runs>>

\* run_pipeline step 3: calculate_priority with the orchestrator's fixed arguments
PipelineScore ==
  /\ run # NoCall
  /\ run.pc = "score"
  /\ \E ml \in predict :
       calculate_priority(run.classification.issue_category, run.description,
                          1, "unknown", 0, 168, 0, ml)
  /\ run' = [run EXCEPT !.pc = "create_tasks"]
  /\ UNCHANGED <<cls, otherCalls, sugg_task, mem_task, issue_memory, tickets, runs>>

\* a task that has not run yet, with the locals of check_and_update_memory
NewMemoryTask(state) ==
  [state |-> state, alert_text |-> None, existing |-> 0, count |-> 0, upserted |-> FALSE]

\* Mutant of MemoryTaskFor: the memory agent is started for every request.
MemoryTaskFor_Always(ward_id) == "created"

\* check_and_update_memory(...) if ward_id else asyncio.sleep(0)
MemoryTaskFor(ward_id) == IF Truthy(ward_id) THEN "created" ELSE "sleep"

\* run_pipeline takes the (score, label, source) tuple and creates the two tasks; the
\* memory task is check_and_update_memory only for a truthy ward, else asyncio.sleep(0)
PipelineCreateTasks ==
  /\ run # NoCall
  /\ run.pc = "create_tasks"
  /\ run' = [run EXCEPT !.priority = [score |-> prio.score, label |-> prio.label,
                                      source |-> prio.source],
                        !.pc = "await_suggestions"]
  /\ prio' = NoCall
  /\ sugg_task' = Pending
  /\ mem_task' = NewMemoryTask(MemoryTaskFor(run.ward_id))
  /\ UNCHANGED <<modelVars, cls, otherCalls, issue_memory, tickets, runs>>

\* what the suggestion call may do: fail, or answer with text that is no JSON, a JSON
\* list of at least 3 items, or other JSON
SuggestionOutcomes == {[kind |-> "raises"], [kind |-> "unparsable"]} \cup SuggestionAnswers

\* the suggestion task: generate_suggestions from its await of the model to its end
SuggestionTask(llm) ==
  /\ sugg_task = Pending
  /\ sugg_task' = generate_suggestions(run.classification.issue_category,
                                       run.priority.label, llm)
  /\ UNCHANGED <<modelVars, prio, cls, otherCalls, run, mem_task, issue_memory, tickets, runs>>

\* the asyncio.sleep(0) task of a run without a ward
MemorySleep ==
  /\ mem_task.state = "sleep"
  /\ mem_task' = [mem_task EXCEPT !.state = "done"]
  /\ UNCHANGED <<modelVars, prio, cls, otherCalls, run, sugg_task, issue_memory, tickets, runs>>

(***************************************************************************)
(* check_and_update_memory, one operator per stretch between two awaits:   *)
(* t is the coroutine's position and locals, a its arguments.              *)
(***************************************************************************)
\* the gate, which is outside the try: None for no ward or a category that is neither
\* urgent nor recurring, an AttributeError for a None category
MemoryGate(t, a) ==
  IF a.ward_id = NoWard THEN [t EXCEPT !.state = "done"]
  ELSE IF should_check_memory_raises(a.priority_label, a.issue_category)
    THEN [t EXCEPT !.state = "raised"]
  ELSE IF ~should_check_memory(a.priority_label, a.issue_category)
    THEN [t EXCEPT !.state = "done"]
  ELSE [t EXCEPT !.state = "find_past"]

\* the records of issue_memory that the past-year query matches
PastMemories(a) ==
  {i \in 1..Len(issue_memory) :
     /\ issue_memory[i].ward_id = a.ward_id
     /\ issue_memory[i].issue_category = a.issue_category
     /\ issue_memory[i].month = current_month
     /\ issue_memory[i].year < current_year}

RECURSIVE SumOccurrences(_)
\* sum(m.occurrence_count for m in past_memories)
SumOccurrences(idx) ==
  IF idx = {} THEN 0
  ELSE LET i == CHOOSE j \in idx : TRUE
       IN  issue_memory[i].occurrence_count + SumOccurrences(idx \ {i})

\* after await IssueMemoryMongo.find(...).to_list(): the decision to alert
MemoryFindPast(t, a) ==
  LET total_occurrences == SumOccurrences(PastMemories(a))
  IN  IF Cardinality(PastMemories(a)) >= 1 /\ total_occurrences >= 2
        THEN [t EXCEPT !.state = "alert", !.count = total_occurrences]
      ELSE [t EXCEPT !.state = "find_existing"]

\* except Exception: logged, the coroutine returns None
MemoryFailed(t) == [t EXCEPT !.state = "done", !.alert_text = None]

\* what the alert call may do: fail, or answer with text that strips to something or
\* to nothing
AlertOutcomes == {[kind |-> "raises"], [kind |-> "text"], [kind |-> "blank"]}

\* _generate_alert_text: the stripped answer, or the template when the call fails
generate_alert_text(llm) ==
  IF llm.kind = "text" THEN "alert written by the model"
  ELSE IF llm.kind = "blank" THEN ""
  ELSE "alert from the template"

\* after await _generate_alert_text(...); issue_category.replace raises on None in the
\* try block and again in its handler, which the caller's handler turns into None
MemoryAlerted(t, a, llm) ==
  IF a.issue_category = None THEN MemoryFailed(t)
  ELSE [t EXCEPT !.state = "find_existing", !.alert_text = generate_alert_text(llm)]

\* the records of issue_memory that the current-year query matches
CurrentMemories(a) ==
  {i \in 1..Len(issue_memory) :
     /\ issue_memory[i].ward_id = a.ward_id
     /\ issue_memory[i].issue_category = a.issue_category
     /\ issue_memory[i].month = current_month
     /\ issue_memory[i].year = current_year}

\* after await IssueMemoryMongo.find_one(...): the first match in the collection, or
\* None
MemoryFindExisting(t, a) ==
  [t EXCEPT !.state = "upsert",
            !.existing = IF CurrentMemories(a) = {} THEN 0
                         ELSE CHOOSE i \in CurrentMemories(a) :
                                \A j \in CurrentMemories(a) : i <= j]

\* Mutant of RollingAverage: the old average is weighted by the new count.
RollingAverage_WeightsNewCount(avg, occurrence_count, priority_score) ==
  [num |-> avg.num * occurrence_count + priority_score * avg.den,
   den |-> avg.den * occurrence_count]

\* the rolling average (avg * (count - 1) + score) / count, as an exact fraction of
\* hundredths
RollingAverage(avg, occurrence_count, priority_score) ==
  [num |-> avg.num * (occurrence_count - 1) + priority_score * avg.den,
   den |-> avg.den * occurrence_count]

\* IssueMemoryMongo(...) validates dept_id: str and issue_category: str
MemoryDocumentInvalid(a) == a.dept_id = None \/ a.issue_category = None

\* the coroutine after await existing.save() of the record read before, or after
\* await new_memory.insert()
MemoryUpserted(t, a) ==
  IF t.existing = 0 /\ MemoryDocumentInvalid(a) THEN MemoryFailed(t)
  ELSE [t EXCEPT !.state = "done", !.upserted = TRUE]

\* the collection after the same
MemoryStored(t, a) ==
  IF t.existing # 0
    THEN LET old == issue_memory[t.existing]
             occurrence_count == old.occurrence_count + 1
         IN  [issue_memory EXCEPT ![t.existing] =
                [old EXCEPT !.occurrence_count = occurrence_count,
                            !.avg_severity_score =
                               RollingAverage(old.avg_severity_score, occurrence_count,
                                              a.priority_score)]]
  ELSE IF MemoryDocumentInvalid(a) THEN issue_memory
  ELSE Append(issue_memory,
              [ward_id |-> a.ward_id,
               issue_category |-> a.issue_category,
               dept_id |-> a.dept_id,
               month |-> current_month, year |-> current_year,
               occurrence_count |-> 1,
               avg_severity_score |-> [num |-> a.priority_score, den |-> 1]])

(***************************************************************************)
(* The memory task of a request                                            *)
(***************************************************************************)
\* the arguments run_pipeline gives check_and_update_memory
MemoryArgs ==
  [ward_id |-> IF Truthy(run.ward_id) THEN run.ward_id ELSE 0,
   issue_category |-> run.classification.issue_category,
   dept_id |-> run.routing.dept_id,
   priority_label |-> run.priority.label,
   priority_score |-> run.priority.score]

\* check_and_update_memory up to its first await
MemoryStart ==
  /\ mem_task.state = "created"
  /\ mem_task' = MemoryGate(mem_task, MemoryArgs)
  /\ UNCHANGED <<modelVars, prio, cls, otherCalls, run, sugg_task, issue_memory, tickets, runs>>

\* await IssueMemoryMongo.find(...).to_list(), then the decision to alert
MemoryFindPastOk ==
  /\ mem_task.state = "find_past"
  /\ mem_task' = MemoryFindPast(mem_task, MemoryArgs)
  /\ UNCHANGED <<modelVars, prio, cls, otherCalls, run, sugg_task, issue_memory, tickets, runs>>

\* a store call of the memory task raises: caught, logged, the task returns None
MemoryStoreRaises ==
  /\ mem_task.state \in {"find_past", "find_existing", "upsert"}
  /\ failures < MaxFailures
  /\ failures' = failures + 1
  /\ mem_task' = MemoryFailed(mem_task)
  /\ UNCHANGED <<trainVars, prio, cls, otherCalls, run, sugg_task, issue_memory, tickets, runs>>

\* await _generate_alert_text(...)
MemoryAlert(llm) ==
  /\ mem_task.state = "alert"
  /\ mem_task' = MemoryAlerted(mem_task, MemoryArgs, llm)
  /\ UNCHANGED <<modelVars, prio, cls, otherCalls, run, sugg_task, issue_memory, tickets, runs>>

\* await IssueMemoryMongo.find_one(...)
MemoryFindExistingOk ==
  /\ mem_task.state = "find_existing"
  /\ mem_task' = MemoryFindExisting(mem_task, MemoryArgs)
  /\ UNCHANGED <<modelVars, prio, cls, otherCalls, run, sugg_task, issue_memory, tickets, runs>>

\* await existing.save() or await new_memory.insert(), then return alert_text
MemoryUpsertOk ==
  /\ mem_task.state = "upsert"
  /\ issue_memory' = MemoryStored(mem_task, MemoryArgs)
  /\ mem_task' = MemoryUpserted(mem_task, MemoryArgs)
  /\ UNCHANGED <<modelVars, prio, cls, otherCalls, run, sugg_task, tickets, runs>>

\* run_pipeline raises: create_ticket has no handler around it, the request fails
PipelineRaised == [run EXCEPT !.pc = "done", !.outcome = "pipeline_raised"]

\* suggestions = await suggestions_task
PipelineJoinSuggestions ==
  /\ run # NoCall
  /\ run.pc = "await_suggestions"
  /\ sugg_task.state \in {"done", "raised"}
  /\ run' = IF sugg_task.state = "raised" THEN PipelineRaised
            ELSE [run EXCEPT !.pc = "await_memory"]
  /\ UNCHANGED <<modelVars, prio, cls, otherCalls, sugg_task, mem_task, issue_memory, tickets, runs>>

\* AIPipelineResult(...)
AIPipelineResult(seasonal_alert) ==
  [dept_id |-> run.routing.dept_id,
   dept_name |-> run.routing.dept_name,
   issue_category |-> run.classification.issue_category,
   ai_confidence |-> run.classification.confidence,
   needs_clarification |-> run.classification.needs_clarification,
   clarification_question |-> run.classification.clarification_question,
   requires_human_review |-> run.classification.requires_human_review,
   routing_reason |-> run.routing.routing_reason,
   escalation_required |-> run.routing.escalation_required,
   escalation_reason |-> run.routing.escalation_reason,
   priority_score |-> run.priority.score,
   priority_label |-> run.priority.label,
   priority_source |-> run.priority.source,
   suggestions |-> sugg_task.value,
   seasonal_alert |-> seasonal_alert]

\* Mutant of MemoryFinished: the orchestrator does not wait for the memory task.
MemoryFinished_NoWait == TRUE

\* await memory_task resumes once the task has ended
MemoryFinished == mem_task.state \in {"done", "raised"}

\* seasonal_alert = await memory_task if ward_id else None; return AIPipelineResult(...)
PipelineJoinMemory ==
  /\ run # NoCall
  /\ run.pc = "await_memory"
  /\ IF Truthy(run.ward_id)
       THEN /\ MemoryFinished
            /\ run' = IF mem_task.state = "raised" THEN PipelineRaised
                      ELSE [run EXCEPT !.result = AIPipelineResult(mem_task.alert_text),
                                       !.pc = "returned"]
     ELSE run' = [run EXCEPT !.result = AIPipelineResult(None), !.pc = "returned"]
  /\ UNCHANGED <<modelVars, prio, cls, otherCalls, sugg_task, mem_task, issue_memory, tickets, runs>>

\* create_ticket step 4: HTTPException(400, "Please clarify your complaint"), or on to
\* the department lookup
TicketDecide ==
  /\ run # NoCall
  /\ run.pc = "returned"
  /\ run' = IF ClarificationRequired(run.result)
              THEN [run EXCEPT !.pc = "done", !.outcome = "clarification"]
            ELSE [run EXCEPT !.pc = "dept_lookup"]
  /\ UNCHANGED <<modelVars, prio, cls, otherCalls, sugg_task, mem_task, issue_memory, tickets, runs>>

\* await DepartmentMongo.find_one(...), then TicketMongo(...), which validates
\* dept_id: str
TicketDeptLookupOk ==
  /\ run # NoCall
  /\ run.pc = "dept_lookup"
  /\ run' = IF run.result.dept_id = None
              THEN [run EXCEPT !.pc = "done", !.outcome = "validation_failed"]
            ELSE [run EXCEPT !.pc = "insert"]
  /\ UNCHANGED <<modelVars, prio, cls, otherCalls, sugg_task, mem_task, issue_memory, tickets, runs>>

\* a store call of create_ticket raises: the request fails
TicketStoreRaises ==
  /\ run # NoCall
  /\ run.pc \in {"dept_lookup", "insert", "save"}
  /\ failures < MaxFailures
  /\ failures' = failures + 1
  /\ run' = [run EXCEPT !.pc = "done", !.outcome = "store_failed"]
  /\ UNCHANGED <<trainVars, prio, cls, otherCalls, sugg_task, mem_task, issue_memory, tickets, runs>>

\* await ticket.insert()
TicketInsertOk ==
  /\ run # NoCall
  /\ run.pc = "insert"
  /\ tickets' = Append(tickets,
       [ticket_code |-> run.ticket_code,
        dept_id |-> run.result.dept_id,
        issue_category |-> run.result.issue_category,
        ward_id |-> run.ward_id,
        consent_given |-> TRUE,
        ai_confidence |-> run.result.ai_confidence,
        ai_suggestions |-> run.result.suggestions,
        priority_score |-> run.result.priority_score,
        priority_label |-> run.result.priority_label,
        priority_source |-> run.result.priority_source,
        status |-> "OPEN",
        requires_human_review |-> run.result.requires_human_review,
        seasonal_alert |-> run.result.seasonal_alert,
        assigned_officer_id |-> None,
        resolved_at |-> None,
        blockchain_hash |-> None])
  /\ run' = [run EXCEPT !.pc = "save"]
  /\ UNCHANGED <<modelVars, prio, cls, otherCalls, sugg_task, mem_task, issue_memory, runs>>

\* await ticket.save() with the hash, then the best-effort SMS, then return ticket
TicketSaveOk ==
  /\ run # NoCall
  /\ run.pc = "save"
  /\ tickets' = [i \in 1..Len(tickets) |->
                   IF tickets[i].ticket_code = run.ticket_code
                     THEN [tickets[i] EXCEPT !.blockchain_hash = "sha256"]
                   ELSE tickets[i]]
  /\ run' = [run EXCEPT !.pc = "done", !.outcome = "created"]
  /\ UNCHANGED <<modelVars, prio, cls, otherCalls, sugg_task, mem_task, issue_memory, runs>>

\* the request is over and its tasks have ended; the next request is served
RunReturned ==
  /\ run # NoCall
  /\ run.pc = "done"
  /\ sugg_task.state \in {"none", "done", "raised"}
  /\ mem_task.state \in {"none", "done", "raised"}
  /\ run' = NoCall
  /\ sugg_task' = NoTask
  /\ mem_task' = NoTask
  /\ UNCHANGED <<modelVars, prio, cls, otherCalls, issue_memory, tickets, runs>>

(***************************************************************************)
(* Inputs of the requests                                                  *)
(***************************************************************************)
Wards == {NoWard, 0, 1}

RequestDescriptions == {ReferenceDescription}

\* the objects the classifier's model may answer with in a request
PipelineClassifierObjects ==
  [dept_id : {JStr("D01")},
   dept_name : {JStr("Roads & Bridges")},
   issue_category : {JNull, JStr("pothole")},
   confidence : {JNum(64), JNum(65)},
   needs_clarification : {JBool(TRUE), JBool(FALSE)},
   clarification_question : {JNull},
   requires_human_review : {JMissing}]

\* the objects the router's model may answer with
RoutingObjects ==
  [dept_id : {JMissing, JNull},
   dept_name : {JMissing},
   routing_confirmed : {JMissing},
   routing_reason : {JMissing},
   escalation_required : {JMissing},
   escalation_reason : {JMissing}]

\* records of earlier years for ward 1 and "pothole" in the current month
SeedMemories ==
  { <<>>,
    <<[ward_id |-> 1, issue_category |-> "pothole", dept_id |-> "D01",
       month |-> current_month, year |-> current_year - 1, occurrence_count |-> 2,
       avg_severity_score |-> [num |-> 3200, den |-> 1]]>> }

TicketRequest ==
  /\ run = NoCall
  /\ \E d \in RequestDescriptions, w \in Wards, c \in BOOLEAN : create_ticket(d, w, c)

ClassifyStep ==
  /\ run # NoCall
  /\ \E llm \in LLMFailures \cup {LLMObject(o) : o \in PipelineClassifierObjects} :
       PipelineClassify(llm)

RouteStep ==
  /\ run # NoCall
  /\ \E llm \in LLMFailures \cup {LLMObject(o) : o \in RoutingObjects} : PipelineRoute(llm)

SuggestionStep == \E llm \in SuggestionOutcomes : SuggestionTask(llm)

AlertStep == \E llm \in AlertOutcomes : MemoryAlert(llm)

\* a fresh process over a store that may hold last year's records
InitPipeline ==
  /\ clf = 0
  /\ sample_count = 0
  /\ training_len = 0
  /\ models_db = <<>>
  /\ train_pc = "idle"
  /\ failures = 0
  /\ restarts = 0
  /\ prio = NoCall
  /\ cls = NoCall
  /\ run = NoCall
  /\ sugg_task = NoTask
  /\ mem_task = NoTask
  /\ issue_memory \in SeedMemories
  /\ tickets = <<>>
  /\ runs = 0
  /\ rte = NoCall
  /\ mem_calls = <<>>
  /\ prev = NoCall
  /\ closers = NoCall
  /\ ops = <<>>
  /\ spike = NoCall

NextPipeline ==
  \/ TicketRequest
  \/ ClassifyStep
  \/ RouteStep
  \/ PipelineScore
  \/ PipelineCreateTasks
  \/ SuggestionStep
  \/ MemorySleep
  \/ MemoryStart
  \/ MemoryFindPastOk
  \/ MemoryStoreRaises
  \/ AlertStep
  \/ MemoryFindExistingOk
  \/ MemoryUpsertOk
  \/ PipelineJoinSuggestions
  \/ PipelineJoinMemory
  \/ TicketDecide
  \/ TicketDeptLookupOk
  \/ TicketStoreRaises
  \/ TicketInsertOk
  \/ TicketSaveOk
  \/ RunReturned

SpecPipeline == InitPipeline /\ [][NextPipeline]_vars

(***************************************************************************)
(* check_and_update_memory called on its own: each call is a coroutine of  *)
(* the event loop, as the memory tasks of concurrent requests are.         *)
(***************************************************************************)
memoryFrame == <<modelVars, prio, cls, rte, prev, closers, ops, spike, run, sugg_task, mem_task, tickets, runs>>

\* no call is between two awaits
NoCallRunning == \A i \in 1..Len(mem_calls) : mem_calls[i].task.state \in {"done", "raised"}

\* the call, which runs the gate before it first awaits
MemoryCall(a) ==
  /\ Len(mem_calls) < MaxCalls
  /\ mem_calls' = Append(mem_calls, [args |-> a,
                                     task |-> MemoryGate(NewMemoryTask("created"), a)])
  /\ UNCHANGED <<memoryFrame, issue_memory>>

CallFindPastOk(i) ==
  /\ mem_calls[i].task.state = "find_past"
  /\ mem_calls' = [mem_calls EXCEPT ![i].task = MemoryFindPast(@, mem_calls[i].args)]
  /\ UNCHANGED <<memoryFrame, issue_memory>>

CallStoreRaises(i) ==
  /\ mem_calls[i].task.state \in {"find_past", "find_existing", "upsert"}
  /\ failures < MaxFailures
  /\ failures' = failures + 1
  /\ mem_calls' = [mem_calls EXCEPT ![i].task = MemoryFailed(@)]
  /\ UNCHANGED <<trainVars, prio, cls, rte, prev, closers, ops, spike, run, sugg_task, mem_task, tickets, runs,
                 issue_memory>>

CallAlert(i, llm) ==
  /\ mem_calls[i].task.state = "alert"
  /\ mem_calls' = [mem_calls EXCEPT ![i].task = MemoryAlerted(@, mem_calls[i].args, llm)]
  /\ UNCHANGED <<memoryFrame, issue_memory>>

CallFindExistingOk(i) ==
  /\ mem_calls[i].task.state = "find_existing"
  /\ mem_calls' = [mem_calls EXCEPT ![i].task = MemoryFindExisting(@, mem_calls[i].args)]
  /\ UNCHANGED <<memoryFrame, issue_memory>>

CallUpsertOk(i) ==
  /\ mem_calls[i].task.state = "upsert"
  /\ issue_memory' = MemoryStored(mem_calls[i].task, mem_calls[i].args)
  /\ mem_calls' = [mem_calls EXCEPT ![i].task = MemoryUpserted(@, mem_calls[i].args)]
  /\ UNCHANGED memoryFrame

\* (priority_score, priority_label) pairs as calculate_priority returns them
MemoryPriorities == {[score |-> sc, label |-> ScoreToLabel(sc)] : sc \in {2700, 3820, 6900}}

\* the arguments of the calls
MemoryCallArgs ==
  {[ward_id |-> 1, issue_category |-> c, dept_id |-> "D01",
    priority_label |-> p.label, priority_score |-> p.score] :
     c \in {"pothole", "general_complaint"}, p \in MemoryPriorities}

\* a record of an earlier year for ward 1 and "pothole" in the current month
PastRecord(years_ago, occurrence_count) ==
  [ward_id |-> 1, issue_category |-> "pothole", dept_id |-> "D01",
   month |-> current_month, year |-> current_year - years_ago,
   occurrence_count |-> occurrence_count,
   avg_severity_score |-> [num |-> 3200, den |-> 1]]

\* what earlier years may have left in the collection
PastCollections ==
  { <<>>, <<PastRecord(1, 1)>>, <<PastRecord(1, 2)>>, <<PastRecord(2, 1), PastRecord(1, 1)>> }

InitMemory ==
  /\ clf = 0
  /\ sample_count = 0
  /\ training_len = 0
  /\ models_db = <<>>
  /\ train_pc = "idle"
  /\ failures = 0
  /\ restarts = 0
  /\ prio = NoCall
  /\ cls = NoCall
  /\ run = NoCall
  /\ sugg_task = NoTask
  /\ mem_task = NoTask
  /\ issue_memory \in PastCollections
  /\ tickets = <<>>
  /\ runs = 0
  /\ rte = NoCall
  /\ mem_calls = <<>>
  /\ prev = NoCall
  /\ closers = NoCall
  /\ ops = <<>>
  /\ spike = NoCall

\* a call made while earlier ones may still be running
MemoryCalled == \E a \in MemoryCallArgs : MemoryCall(a)

\* a call made after the earlier ones returned
MemoryCalledInTurn ==
  /\ NoCallRunning
  /\ \E a \in MemoryCallArgs : MemoryCall(a)

CallFindPastStep == \E i \in 1..Len(mem_calls) : CallFindPastOk(i)

CallStoreFailure == \E i \in 1..Len(mem_calls) : CallStoreRaises(i)

CallAlertStep == \E i \in 1..Len(mem_calls), llm \in AlertOutcomes : CallAlert(i, llm)

CallFindExistingStep == \E i \in 1..Len(mem_calls) : CallFindExistingOk(i)

CallUpsertStep == \E i \in 1..Len(mem_calls) : CallUpsertOk(i)

\* successive calls
NextMemoryInTurn ==
  \/ MemoryCalledInTurn
  \/ CallFindPastStep
  \/ CallStoreFailure
  \/ CallAlertStep
  \/ CallFindExistingStep
  \/ CallUpsertStep

SpecMemoryInTurn == InitMemory /\ [][NextMemoryInTurn]_vars

\* concurrent calls
NextMemory ==
  \/ MemoryCalled
  \/ CallFindPastStep
  \/ CallStoreFailure
  \/ CallAlertStep
  \/ CallFindExistingStep
  \/ CallUpsertStep

SpecMemory == InitMemory /\ [][NextMemory]_vars

(***************************************************************************)
(* The officers' requests on a ticket: TicketService.change_status,        *)
(* ApprovalService.override_priority and the override-priority route.      *)
(* Each request is a coroutine; one action per stretch between two awaits. *)
(* TicketMongo.get gives the request its own copy of the document, and     *)
(* ticket.save() writes every field of that copy.                          *)
(***************************************************************************)
MaxOps == 2

TicketStatus ==
  {"OPEN", "ASSIGNED", "IN_PROGRESS", "PENDING_VERIFICATION", "CLOSED",
   "CLOSED_UNVERIFIED", "REOPENED", "REJECTED"}

opsFrame ==
  <<modelVars, prio, cls, rte, mem_calls, prev, closers, spike, run, sugg_task, mem_task,
    issue_memory, runs>>

\* a request that has not reached its first await
NewOp(op, ticket_id, pc) ==
  [op |-> op, ticket_id |-> ticket_id, new_status |-> None, new_dept_id |-> None,
   new_score |-> 0, pc |-> pc, outcome |-> None, ticket |-> NoCall, trained |-> FALSE]

\* the request i goes on
OpMoves(i, op) == ops' = [ops EXCEPT ![i] = op]

\* TicketService.change_status up to await TicketMongo.get
change_status(ticket_id, new_status, new_dept_id) ==
  /\ Len(ops) < MaxOps
  /\ ops' = Append(ops, [NewOp("change_status", ticket_id, "get")
                           EXCEPT !.new_status = new_status, !.new_dept_id = new_dept_id])
  /\ UNCHANGED <<opsFrame, tickets>>

\* ApprovalService.override_priority up to await TicketMongo.get: 403 for an actor
\* whose role has no can_override_priority
override_priority(ticket_id, can_override_priority, new_score) ==
  /\ Len(ops) < MaxOps
  /\ ops' = Append(ops,
       IF can_override_priority
         THEN [NewOp("override_priority", ticket_id, "get") EXCEPT !.new_score = new_score]
       ELSE [NewOp("override_priority", ticket_id, "done") EXCEPT !.outcome = "forbidden"])
  /\ UNCHANGED <<opsFrame, tickets>>

\* the route POST /tickets/{ticket_id}/override-priority up to await TicketMongo.get
route_override_priority(ticket_id, priority_score) ==
  /\ Len(ops) < MaxOps
  /\ ops' = Append(ops, [NewOp("route_override_priority", ticket_id, "get")
                           EXCEPT !.new_score = priority_score])
  /\ UNCHANGED <<opsFrame, tickets>>

\* the label of an overriding score (hundredths), the same in the service and the route
OverrideLabel(score) ==
  IF score >= 8000 THEN "CRITICAL"
  ELSE IF score >= 6000 THEN "HIGH"
  ELSE IF score >= 3500 THEN "MEDIUM"
  ELSE "LOW"

\* min(100.0, max(0.0, float(new_score))) in the service, max(0.0, min(100.0, score)) in
\* the route
ClampScore(op, score) ==
  IF op = "override_priority"
    THEN Min(10000, IF score > 0 THEN score ELSE 0)
  ELSE LET capped == Min(10000, score) IN IF capped > 0 THEN capped ELSE 0

\* change_status from the document it got to its next await, or to the exception
StatusChanged(o, ticket) ==
  IF o.new_status = "REROUTE"
    THEN IF o.new_dept_id = None
           THEN [o EXCEPT !.pc = "done", !.outcome = "new_dept_id_required"]
         ELSE [o EXCEPT !.ticket = [ticket EXCEPT !.dept_id = o.new_dept_id],
                        !.pc = "dept_lookup"]
  ELSE IF o.new_status = "ESCALATE"
    THEN [o EXCEPT !.ticket = ticket, !.pc = "notify"]
  ELSE IF o.new_status \notin TicketStatus         \* TicketStatus(new_status): ValueError
    THEN [o EXCEPT !.pc = "done", !.outcome = "raised"]
  ELSE IF o.new_status = "ASSIGNED"
    THEN [o EXCEPT !.ticket = [ticket EXCEPT !.status = "ASSIGNED",
                                             !.assigned_officer_id = "actor_id"],
                   !.pc = "save"]
  ELSE IF o.new_status = "CLOSED"
    THEN [o EXCEPT !.ticket = [ticket EXCEPT !.status = "CLOSED", !.resolved_at = "utcnow"],
                   !.pc = "train"]
  ELSE [o EXCEPT !.ticket = [ticket EXCEPT !.status = o.new_status], !.pc = "save"]

\* the overrides from the document they got to await ticket.save()
PriorityOverridden(o, ticket) ==
  LET new_score == ClampScore(o.op, o.new_score)
  IN  [o EXCEPT !.ticket = [ticket EXCEPT !.priority_label = OverrideLabel(new_score),
                                          !.priority_score = new_score,
                                          !.priority_source = "human_override"],
                !.pc = "save"]

\* await TicketMongo.get(...) returns: 404 without a document, else the request works
\* on its copy up to its next await
OpGet(i) ==
  /\ ops[i].pc = "get"
  /\ OpMoves(i, IF ops[i].ticket_id \notin 1..Len(tickets)
                  THEN [ops[i] EXCEPT !.pc = "done", !.outcome = "not_found"]
                ELSE IF ops[i].op = "change_status"
                  THEN StatusChanged(ops[i], tickets[ops[i].ticket_id])
                ELSE PriorityOverridden(ops[i], tickets[ops[i].ticket_id]))
  /\ UNCHANGED <<opsFrame, tickets>>

\* REROUTE: await DepartmentMongo.find_one(...), then the new sla_deadline
OpDeptLookup(i) ==
  /\ ops[i].pc = "dept_lookup"
  /\ OpMoves(i, [ops[i] EXCEPT !.pc = "save"])
  /\ UNCHANGED <<opsFrame, tickets>>

\* ESCALATE: await wa.send_message(...), whose failure is only logged
OpNotify(i) ==
  /\ ops[i].pc = "notify"
  /\ OpMoves(i, [ops[i] EXCEPT !.pc = "save"])
  /\ UNCHANGED <<opsFrame, tickets>>

\* CLOSED: await train_on_closed_ticket(...) takes the lock of add_training_sample and
\* runs to the first await of the section or to its end
OpTrainAppend(i) ==
  /\ ops[i].pc = "train"
  /\ \/ /\ TrainAppendOk
        /\ OpMoves(i, [ops[i] EXCEPT !.trained = TRUE,
                         !.pc = IF sample_count' % RetrainEvery = 0 THEN "training"
                                ELSE "save"])
     \/ /\ TrainAppendRaises
        /\ OpMoves(i, [ops[i] EXCEPT !.trained = TRUE, !.pc = "save"])
  /\ UNCHANGED <<closers, spike>>

\* the retrain of the closing request resumes from its await of the update
OpTrainDeactivate(i) ==
  /\ ops[i].pc = "training"
  /\ \/ /\ TrainDeactivateOk
        /\ UNCHANGED ops
     \/ /\ TrainDeactivateRaises
        /\ OpMoves(i, [ops[i] EXCEPT !.pc = "save"])
  /\ UNCHANGED <<closers, spike>>

\* the retrain of the closing request resumes from its await of the insert
OpTrainInsert(i) ==
  /\ ops[i].pc = "training"
  /\ (TrainInsertOk \/ TrainInsertRaises)
  /\ OpMoves(i, [ops[i] EXCEPT !.pc = "save"])
  /\ UNCHANGED <<closers, spike>>

\* await ticket.save(): the stored document becomes the request's copy
OpSave(i) ==
  /\ ops[i].pc = "save"
  /\ tickets' = [tickets EXCEPT ![ops[i].ticket_id] = ops[i].ticket]
  /\ OpMoves(i, [ops[i] EXCEPT !.outcome = "saved",
                   !.pc = IF ops[i].op = "override_priority" THEN "audit" ELSE "done"])
  /\ UNCHANGED opsFrame

\* await write_audit(action="PRIORITY_OVERRIDDEN", ...), which never raises
OpAudit(i) ==
  /\ ops[i].pc = "audit"
  /\ OpMoves(i, [ops[i] EXCEPT !.pc = "done"])
  /\ UNCHANGED <<opsFrame, tickets>>

\* the ticket that create_ticket stored for the reference complaint in ward 1
CreatedTickets ==
  <<[ticket_code |-> 1, dept_id |-> "D01", issue_category |-> "pothole", ward_id |-> 1,
     consent_given |-> TRUE, ai_confidence |-> 65,
     ai_suggestions |-> [list |-> "category", key |-> 1, length |-> 3],
     priority_score |-> 2800, priority_label |-> "LOW", priority_source |-> "rules",
     status |-> "OPEN", requires_human_review |-> FALSE, seasonal_alert |-> None,
     assigned_officer_id |-> None, resolved_at |-> None, blockchain_hash |-> "sha256"]>>

\* one ticket is open, in a process whose model has 8 samples
InitOps ==
  /\ clf = 0
  /\ sample_count = 8
  /\ training_len = 8
  /\ models_db = <<>>
  /\ train_pc = "idle"
  /\ failures = 0
  /\ restarts = 0
  /\ prio = NoCall
  /\ cls = NoCall
  /\ run = NoCall
  /\ sugg_task = NoTask
  /\ mem_task = NoTask
  /\ issue_memory = <<>>
  /\ tickets = CreatedTickets
  /\ runs = 1
  /\ rte = NoCall
  /\ mem_calls = <<>>
  /\ prev = NoCall
  /\ closers = NoCall
  /\ ops = <<>>
  /\ spike = NoCall

\* ticket 2 does not exist
TicketIds == {1, 2}

RequestedStatuses == {"REROUTE", "ESCALATE", "ASSIGNED", "CLOSED", "REOPENED", "DONE"}

\* -5.0, 34.99, 35.0, 80.0 and 120.0
OverrideScores == {0 - 500, 3499, 3500, 8000, 12000}

StatusRequest ==
  \E t \in TicketIds, st \in RequestedStatuses, d \in {None, "D02"} : change_status(t, st, d)

OverrideRequest ==
  \E t \in TicketIds, allowed \in BOOLEAN, sc \in OverrideScores :
    override_priority(t, allowed, sc)

RouteOverrideRequest ==
  \E t \in TicketIds, sc \in OverrideScores : route_override_priority(t, sc)

OpGetStep == \E i \in 1..Len(ops) : OpGet(i)

OpDeptLookupStep == \E i \in 1..Len(ops) : OpDeptLookup(i)

OpNotifyStep == \E i \in 1..Len(ops) : OpNotify(i)

OpTrainAppendStep == \E i \in 1..Len(ops) : OpTrainAppend(i)

OpTrainDeactivateStep == \E i \in 1..Len(ops) : OpTrainDeactivate(i)

OpTrainInsertStep == \E i \in 1..Len(ops) : OpTrainInsert(i)

OpSaveStep == \E i \in 1..Len(ops) : OpSave(i)

OpAuditStep == \E i \in 1..Len(ops) : OpAudit(i)

NextOps ==
  \/ StatusRequest
  \/ OverrideRequest
  \/ RouteOverrideRequest
  \/ OpGetStep
  \/ OpDeptLookupStep
  \/ OpNotifyStep
  \/ OpTrainAppendStep
  \/ OpTrainDeactivateStep
  \/ OpTrainInsertStep
  \/ OpSaveStep
  \/ OpAuditStep

SpecOps == InitOps /\ [][NextOps]_vars

(***************************************************************************)
(* The requests of a process whose online model may have been trained      *)
(***************************************************************************)
\* the store and the model after 50 closures without a failure or a restart
TrainedModels ==
  [k \in 1..5 |-> [model_bytes |-> 10 * k, sample_count |-> 10 * k, is_active |-> k = 5]]

\* the objects the classifier's model may answer with: a category of the largest
\* severity and one of the issue memory
ScoredClassifierObjects ==
  [dept_id : {JStr("D01")},
   dept_name : {JStr("Roads & Bridges")},
   issue_category : {JStr("pothole"), JStr("fire")},
   confidence : {JNum(65)},
   needs_clarification : {JBool(FALSE)},
   clarification_question : {JNull},
   requires_human_review : {JMissing}]

ScoredRequest ==
  /\ run = NoCall
  /\ \E d \in RequestDescriptions, w \in {NoWard, 1} : create_ticket(d, w, TRUE)

ScoredClassifyStep ==
  /\ run # NoCall
  /\ \E llm \in {[kind |-> "raises"]} \cup {LLMObject(o) : o \in ScoredClassifierObjects} :
       PipelineClassify(llm)

\* a process over a store that may hold last year's records, its online model
\* untrained or trained on 50
InitPipelineTrained ==
  /\ \/ /\ clf = 0
        /\ sample_count = 0
        /\ training_len = 0
        /\ models_db = <<>>
     \/ /\ clf = MIN_SAMPLES_TO_USE
        /\ sample_count = MIN_SAMPLES_TO_USE
        /\ training_len = MIN_SAMPLES_TO_USE
        /\ models_db = TrainedModels
  /\ train_pc = "idle"
  /\ failures = 0
  /\ restarts = 0
  /\ prio = NoCall
  /\ cls = NoCall
  /\ run = NoCall
  /\ sugg_task = NoTask
  /\ mem_task = NoTask
  /\ issue_memory \in SeedMemories
  /\ tickets = <<>>
  /\ runs = 0
  /\ rte = NoCall
  /\ mem_calls = <<>>
  /\ prev = NoCall
  /\ closers = NoCall
  /\ ops = <<>>
  /\ spike = NoCall

NextPipelineTrained ==
  \/ ScoredRequest
  \/ ScoredClassifyStep
  \/ RouteStep
  \/ PipelineScore
  \/ PipelineCreateTasks
  \/ SuggestionStep
  \/ MemorySleep
  \/ MemoryStart
  \/ MemoryFindPastOk
  \/ MemoryStoreRaises
  \/ AlertStep
  \/ MemoryFindExistingOk
  \/ MemoryUpsertOk
  \/ PipelineJoinSuggestions
  \/ PipelineJoinMemory
  \/ TicketDecide
  \/ TicketDeptLookupOk
  \/ TicketStoreRaises
  \/ TicketInsertOk
  \/ TicketSaveOk
  \/ RunReturned

SpecPipelineTrained == InitPipelineTrained /\ [][NextPipelineTrained]_vars

(***************************************************************************)
(* SeasonalPredictor for one (ward, category) pair: the cached model, the  *)
(* created_at days of the pair's tickets, and the predict_spike calls,     *)
(* each a coroutine with one action per stretch between two awaits.        *)
(***************************************************************************)
MIN_DATA_POINTS == 90

\* 1.5, in hundredths
SPIKE_THRESHOLD == 150

MaxSpikeCalls == 2

spikeFrame ==
  <<modelVars, prio, cls, rte, mem_calls, prev, closers, ops, pipelineVars>>

\* n tickets created on each of the given days
TicketsOn(days, n) == [i \in 1..(Len(days) * n) |-> days[((i - 1) \div n) + 1]]

\* df.groupby("ds").sum() reindexed over date_range(min, max): one row per calendar
\* day from the first to the last ticket, 0 on a day without tickets
DailyCounts(dates) ==
  LET days == {dates[i] : i \in 1..Len(dates)}
      first == CHOOSE d \in days : \A e \in days : d <= e
      last == CHOOSE d \in days : \A e \in days : d >= e
  IN  [r \in 1..(last - first + 1) |->
         Cardinality({i \in 1..Len(dates) : dates[i] = first + r - 1})]

\* _load_daily_counts once TicketMongo.find(...).to_list() has returned the tickets
\* created on `dates`: the rows of the frame, or no frame (None) without tickets or
\* with fewer than 90 dates
NoFrame == [frame |-> FALSE, rows |-> <<>>]

load_daily_counts(dates) ==
  IF Len(dates) = 0 THEN NoFrame
  ELSE IF Len(dates) < MIN_DATA_POINTS THEN NoFrame
  ELSE [frame |-> TRUE, rows |-> DailyCounts(dates)]

\* the comparison of predict_spike on its two sums (in hundredths): None for a
\* historical average that is not positive, the alert for a ratio of at least
\* SPIKE_THRESHOLD = 1.5
SpikeResult(predicted, historical_period_avg) ==
  IF historical_period_avg <= 0 THEN None
  ELSE IF 100 * predicted >= SPIKE_THRESHOLD * historical_period_avg THEN "prophet_spike"
  ELSE None

\* a call of predict_spike changes, or the predictor does
SpikeMoves(i, call) == spike' = [spike EXCEPT !.calls[i] = call]

\* entry = self._models.get(key) and on to the await of the forecast, with the model
\* of the entry
SpikeEntryRead(call, model) ==
  IF model = NoCall THEN [call EXCEPT !.pc = "done", !.outcome = "no_entry"]
  ELSE [call EXCEPT !.pc = "forecast", !.served = model.version]

\* predict_spike up to its first await: should_train is decided from the cache and the
\* age of the model, then the call waits for the lock or reads the entry
predict_spike ==
  /\ spike # NoCall
  /\ Len(spike.calls) < MaxSpikeCalls
  /\ LET should_train == spike.model = NoCall \/ spike.stale
         call == [pc |-> "lock", outcome |-> None, result |-> None, df |-> <<>>,
                  had_model |-> spike.model # NoCall, served |-> 0,
                  predicted |-> 0, historical_period_avg |-> 0]
     IN  spike' = [spike EXCEPT !.calls =
                     Append(@, IF should_train THEN call
                               ELSE SpikeEntryRead(call, spike.model))]
  /\ UNCHANGED spikeFrame

\* async with self._lock is entered; _train runs to await TicketMongo.find(...)
SpikeLock(i) ==
  /\ spike.calls[i].pc = "lock"
  /\ spike.lock = 0
  /\ spike' = [spike EXCEPT !.lock = i, !.calls[i].pc = "load"]
  /\ UNCHANGED spikeFrame

\* the find returns (or raises): without a frame _train returns False, the lock is
\* released and predict_spike returns None; with one _train awaits the fit
SpikeLoad(i, raises) ==
  /\ spike.calls[i].pc = "load"
  /\ LET df == IF raises THEN NoFrame ELSE load_daily_counts(spike.dates)
     IN  spike' = IF ~df.frame
                    THEN [spike EXCEPT !.lock = 0, !.calls[i].pc = "done",
                                       !.calls[i].outcome = "not_trained"]
                  ELSE [spike EXCEPT !.calls[i].pc = "fit", !.calls[i].df = df.rows]
  /\ UNCHANGED spikeFrame

\* await loop.run_in_executor(None, model.fit, df) returns: the entry of the pair is
\* replaced, the lock released, and the call reads the entry. Prophet refuses a frame
\* of fewer than 2 rows, and any fit may raise: then _train returns False
SpikeFit(i, raises) ==
  /\ spike.calls[i].pc = "fit"
  /\ IF raises \/ Len(spike.calls[i].df) < 2
       THEN spike' = [spike EXCEPT !.lock = 0, !.calls[i].pc = "done",
                                   !.calls[i].outcome = "not_trained"]
     ELSE LET model == [version |-> spike.trained + 1, df_len |-> Len(spike.calls[i].df)]
          IN  spike' = [spike EXCEPT !.model = model, !.trained = @ + 1, !.stale = FALSE,
                                     !.lock = 0,
                                     !.calls[i] = SpikeEntryRead(@, model)]
  /\ UNCHANGED spikeFrame

\* await loop.run_in_executor(None, _predict) returns the forecast, of which the call
\* takes the two sums
SpikeForecast(i, predicted, historical_period_avg) ==
  /\ spike.calls[i].pc = "forecast"
  /\ SpikeMoves(i, [spike.calls[i] EXCEPT !.pc = "done", !.outcome = "forecast",
                      !.predicted = predicted,
                      !.historical_period_avg = historical_period_avg,
                      !.result = SpikeResult(predicted, historical_period_avg)])
  /\ UNCHANGED spikeFrame

\* the forecast raises: logged, None returned
SpikeForecastRaises(i) ==
  /\ spike.calls[i].pc = "forecast"
  /\ SpikeMoves(i, [spike.calls[i] EXCEPT !.pc = "done", !.outcome = "forecast_failed"])
  /\ UNCHANGED spikeFrame

\* seven days pass since the pair's model was trained
SpikeModelAges ==
  /\ spike # NoCall
  /\ spike.model # NoCall
  /\ ~spike.stale
  /\ spike' = [spike EXCEPT !.stale = TRUE]
  /\ UNCHANGED spikeFrame

\* the days on which the pair's tickets were created: none; 89 tickets on 2 days; 90 on
\* one day; 90 on 2 days; one a day for 90 days; 89 over 120 days
Histories ==
  { <<>>,
    SubSeq(TicketsOn(<<1, 2>>, 45), 1, 89),
    TicketsOn(<<1>>, 90),
    TicketsOn(<<1, 2>>, 45),
    TicketsOn([d \in 1..90 |-> d], 1),
    TicketsOn([d \in 1..89 |-> IF d = 89 THEN 120 ELSE d], 1) }

\* a fresh SeasonalPredictor() over one of the histories
InitSpike ==
  /\ clf = 0
  /\ sample_count = 0
  /\ training_len = 0
  /\ models_db = <<>>
  /\ train_pc = "idle"
  /\ failures = 0
  /\ restarts = 0
  /\ prio = NoCall
  /\ cls = NoCall
  /\ run = NoCall
  /\ sugg_task = NoTask
  /\ mem_task = NoTask
  /\ issue_memory = <<>>
  /\ tickets = <<>>
  /\ runs = 0
  /\ rte = NoCall
  /\ mem_calls = <<>>
  /\ prev = NoCall
  /\ closers = NoCall
  /\ ops = <<>>
  /\ \E dates \in Histories :
       spike = [dates |-> dates, model |-> NoCall, trained |-> 0, stale |-> FALSE,
                lock |-> 0, calls |-> <<>>]

\* (forecast sum, historical per-horizon average) in hundredths: below, at and above
\* 1.5 times the average, and an average of zero
Forecasts == { <<4499, 3000>>, <<4500, 3000>>, <<4501, 3000>>, <<0, 0>>, <<500, 0>> }

SpikeLockStep == \E i \in 1..Len(spike.calls) : SpikeLock(i)

SpikeLoadStep == \E i \in 1..Len(spike.calls), raises \in BOOLEAN : SpikeLoad(i, raises)

SpikeFitStep == \E i \in 1..Len(spike.calls), raises \in BOOLEAN : SpikeFit(i, raises)

SpikeForecastStep ==
  \E i \in 1..Len(spike.calls), f \in Forecasts : SpikeForecast(i, f[1], f[2])

SpikeForecastFailure == \E i \in 1..Len(spike.calls) : SpikeForecastRaises(i)

NextSpike ==
  \/ predict_spike
  \/ SpikeLockStep
  \/ SpikeLoadStep
  \/ SpikeFitStep
  \/ SpikeForecastStep
  \/ SpikeForecastFailure
  \/ SpikeModelAges

SpecSpike == InitSpike /\ [][NextSpike]_vars

(***************************************************************************)
(* Claims on the hybrid scorer                                             *)
(***************************************************************************)
Scored == prio.op = "calculate_priority"

\* The fixed thresholds, as the specification states them
LabelMatchesThresholds(score, label) ==
  \/ score >= 8000 /\ label = "CRITICAL"
  \/ score < 8000 /\ score >= 6000 /\ label = "HIGH"
  \/ score < 6000 /\ score >= 3500 /\ label = "MEDIUM"
  \/ score < 3500 /\ label = "LOW"

\* C1: every calculate_priority result has a score in [0,100] and the label that the
\* thresholds (>= 80 CRITICAL, >= 60 HIGH, >= 35 MEDIUM, else LOW) give for that score.
C1_ScoreInRangeLabelFromScore ==
  Scored => /\ prio.score >= 0
            /\ prio.score <= 10000
            /\ LabelMatchesThresholds(prio.score, prio.label)

\* C1 witness: a blended result whose label differs from the rule label.
C1_Witness ==
  /\ Scored
  /\ prio.source = "hybrid"
  /\ prio.score # prio.rule_score
  /\ ~LabelMatchesThresholds(prio.rule_score, prio.label)

\* C2: while the cumulative sample count is below 50, every scoring call returns
\* source "rules".
C2_RulesOnlyBelowFiftySamples ==
  (Scored /\ sample_count < 50) => prio.source = "rules"

\* C2 witness: a scoring call at 49 samples with a fitted classifier in memory.
C2_Witness ==
  /\ Scored
  /\ sample_count = 49
  /\ clf # 0
  /\ prio.source = "rules"

\* The label -> proxy score mapping, as the specification states it (hundredths)
ProxyScore(label) ==
  CASE label = "LOW" -> 2000 [] label = "MEDIUM" -> 5000
    [] label = "HIGH" -> 7000 [] label = "CRITICAL" -> 9000

ReferenceScenarioScored ==
  /\ Scored
  /\ prio.issue_category = "large_pothole"
  /\ prio.description = ReferenceDescription
  /\ prio.report_count = 5
  /\ prio.location_type = "school_vicinity"
  /\ prio.days_open = 2
  /\ prio.hours_until_sla_breach = 20
  /\ prio.social_media_mentions = 60

\* C4 as stated: the reference scenario on an untrained model scores 74, HIGH, "rules".
C4_Original ==
  (ReferenceScenarioScored /\ clf = 0) =>
    /\ prio.score = 7400
    /\ prio.label = "HIGH"
    /\ prio.source = "rules"

\* C4 amended: the reference scenario on an untrained model scores 69
\* (25 + 24 + 5 + 8 + 7: the severity factor is min(30, 20 + 5) = 25), HIGH, "rules".
C4_ReferenceScenarioScores69 ==
  (ReferenceScenarioScored /\ clf = 0) =>
    /\ prio.rule_score = 6900
    /\ prio.score = 6900
    /\ prio.label = "HIGH"
    /\ prio.source = "rules"

\* C4 witness: the reference scenario was scored with no classifier in memory.
C4_Witness ==
  /\ ReferenceScenarioScored
  /\ clf = 0
  /\ sample_count = 0

(***************************************************************************)
(* Claims on the classifier                                                *)
(***************************************************************************)
Classified == cls.op = "classify_complaint"

FellBack == Classified /\ cls.result.path = "fallback"

Depts == 1..Len(DEPARTMENT_CATALOGUE)

\* Keyword substring hits of the i-th department in the lower-cased description
Hits(i) == KeywordScore(i, Lower(cls.description))

MostHits == CHOOSE m \in {Hits(i) : i \in Depts} : \A i \in Depts : Hits(i) <= m

Selected == CatalogueIndex(cls.result.dept_id)

SolidWaste == CatalogueIndex("D05")

\* The i-th department has a hit on a keyword that is in no other department's list
UniqueKeywordHit(i) ==
  \E k \in 1..Len(DEPARTMENT_CATALOGUE[i].keywords) :
    /\ Contains(DEPARTMENT_CATALOGUE[i].keywords[k], Lower(cls.description))
    /\ \A j \in Depts \ {i} : \A m \in 1..Len(DEPARTMENT_CATALOGUE[j].keywords) :
         DEPARTMENT_CATALOGUE[j].keywords[m] # DEPARTMENT_CATALOGUE[i].keywords[k]

\* C7: every ClassificationResult with confidence below 0.75 has requires_human_review set.
C7_LowConfidenceRequiresReview ==
  (Classified /\ cls.result.confidence < 75) => cls.result.requires_human_review

\* C8 as stated: the fallback selects a department with the most hits, and the default
\* D05 whenever several departments tie for the most.
C8_Original ==
  FellBack =>
    /\ Hits(Selected) = MostHits
    /\ Cardinality({i \in Depts : Hits(i) = MostHits}) > 1 => Selected = SolidWaste

\* C8 amended: the fallback selects a department with the most hits; among departments
\* tied for a non-zero most it selects the one listed first in the catalogue; it selects
\* the default D05 when no keyword hits at all.
C8_MostHitsFirstListedWins ==
  FellBack =>
    /\ Hits(Selected) = MostHits
    /\ MostHits = 0 => Selected = SolidWaste
    /\ MostHits > 0 => \A i \in Depts : Hits(i) = MostHits => Selected <= i

\* C8 witness: D05 ties for a non-zero most and an earlier department is selected.
C8_Witness ==
  /\ FellBack
  /\ MostHits > 0
  /\ Hits(SolidWaste) = MostHits
  /\ Selected # SolidWaste

\* C9 as stated: a department with a hit on a keyword of its own is selected, with
\* confidence >= 0.6 and no clarification, whatever else the description contains.
C9_Original ==
  FellBack =>
    \A i \in Depts : UniqueKeywordHit(i) =>
      /\ Selected = i
      /\ cls.result.confidence >= 60
      /\ ~cls.result.needs_clarification

\* C9 amended: with a hit on a keyword of one department only, the result has
\* confidence >= 0.6 and no clarification, and that department is selected provided no
\* department has more hits and no department listed before it has as many.
C9_UniqueKeywordSelectsUnlessOutnumbered ==
  FellBack =>
    \A i \in Depts : UniqueKeywordHit(i) =>
      /\ cls.result.confidence >= 60
      /\ ~cls.result.needs_clarification
      /\ (\A j \in Depts \ {i} : Hits(j) < Hits(i) \/ (Hits(j) = Hits(i) /\ j > i))
           => Selected = i

\* C9 witness: the selected department has a keyword of its own in a description that
\* also hits another department.
C9_Witness ==
  /\ FellBack
  /\ UniqueKeywordHit(Selected)
  /\ \E j \in Depts \ {Selected} : Hits(j) > 0
  /\ \A j \in Depts \ {Selected} : Hits(j) < Hits(Selected)

\* C10: with no keyword of any department in the description, the fallback asks for
\* clarification with a non-empty question, confidence <= 0.6 and human review.
C10_NoHitAsksClarification ==
  (FellBack /\ \A i \in Depts : Hits(i) = 0) =>
    /\ cls.result.needs_clarification
    /\ cls.result.clarification_question # None
    /\ cls.result.clarification_question # ""
    /\ cls.result.confidence <= 60
    /\ cls.result.requires_human_review

\* C10 witness: a non-empty description without any keyword went through the fallback.
C10_Witness ==
  /\ FellBack
  /\ Len(cls.description) > 0
  /\ \A i \in Depts : Hits(i) = 0
  /\ cls.result.needs_clarification

(***************************************************************************)
(* Claims on the pipeline and on ticket creation                           *)
(***************************************************************************)
Requested == run # NoCall

\* the request's ticket is in the collection
TicketInserted == \E i \in 1..Len(tickets) : tickets[i].ticket_code = run.ticket_code

\* C5: run_pipeline never raises: every request that gave consent and is over either
\* was answered from a complete pipeline result (department, priority score, label and
\* source, a list of suggestions) or failed after the pipeline had returned one,
\* whatever the language-model calls and the memory store did.
C5_PipelineNeverRaises ==
  (Requested /\ run.pc = "done" /\ run.consent_given)
    => /\ run.outcome # "pipeline_raised"
       /\ run.result # NoCall
       /\ run.result.priority_label \in {"LOW", "MEDIUM", "HIGH", "CRITICAL"}
       /\ run.result.priority_source \in {"rules", "hybrid"}
       /\ run.result.suggestions.length = 3

\* C6: create_ticket rejects with a clarification request, and inserts no ticket,
\* whenever the pipeline result has needs_clarification set or a confidence below
\* 0.65; a ticket is in the collection only when neither holds and consent was given.
C6_ClarificationRejectsAndInsertsNothing ==
  Requested =>
    /\ (run.result # NoCall /\ run.pc \notin {"returned"}
        /\ (run.result.needs_clarification \/ run.result.ai_confidence < 65))
         => /\ run.pc = "done"
            /\ run.outcome = "clarification"
            /\ ~TicketInserted
    /\ TicketInserted
         => /\ run.consent_given
            /\ run.result # NoCall
            /\ ~run.result.needs_clarification
            /\ run.result.ai_confidence >= 65

\* C6 happens: a request with consent whose result has needs_clarification set, at a
\* confidence of exactly 0.65, is rejected with the clarification request and the
\* collection holds no ticket
C6_Witness ==
  /\ Requested
  /\ run.consent_given
  /\ run.outcome = "clarification"
  /\ run.result.needs_clarification
  /\ run.result.ai_confidence = 65
  /\ tickets = <<>>

\* C15: in every run_pipeline execution a routing exists only after the classification,
\* scoring has happened only after the routing, the suggestion task and the memory task
\* exist only after the priority tuple, and a result is returned only when the
\* suggestion task has ended and the memory task, if check_and_update_memory was
\* started, has ended too, in whatever order the two ended.
C15_StepsInOrderAndBranchesJoined ==
  Requested =>
    /\ run.routing # NoCall => run.classification # NoCall
    /\ (prio # NoCall \/ run.priority # NoCall) => run.routing # NoCall
    /\ (sugg_task # NoTask \/ mem_task # NoTask) => run.priority # NoCall
    /\ run.result # NoCall => /\ sugg_task.state = "done"
                              /\ mem_task.state \in {"sleep", "done"}

\* C15 happens: a result was returned for a request with a ward whose memory task went
\* through the store to its upsert, after both tasks had ended
C15_Witness ==
  /\ Requested
  /\ run.result # NoCall
  /\ run.ward_id = 1
  /\ sugg_task.state = "done"
  /\ mem_task.state = "done"
  /\ mem_task.upserted

\* C16: while run_pipeline serves a request without a ward, check_and_update_memory is
\* not invoked: the second task is only ever the sleep, no step reads, creates or
\* updates an issue-memory record, and the result's seasonal_alert is None.
C16_NoWardSkipsMemory ==
  /\ [](Requested /\ run.ward_id = NoWard
          => /\ mem_task.state \in {"none", "sleep", "done"}
             /\ mem_task # NoTask => /\ mem_task.alert_text = None
                                     /\ mem_task.existing = 0
                                     /\ ~mem_task.upserted
             /\ run.result # NoCall => run.result.seasonal_alert = None)
  /\ [][Requested /\ run.ward_id = NoWard => issue_memory' = issue_memory]_vars

\* C16 happens: a request without a ward, in a category and at a time of year for which
\* the collection holds a past record with two occurrences, got its result
C16_Witness ==
  /\ Requested
  /\ run.ward_id = NoWard
  /\ run.result # NoCall
  /\ run.result.issue_category = "pothole"
  /\ run.result.seasonal_alert = None
  /\ mem_task.state = "done"
  /\ issue_memory # <<>>

(***************************************************************************)
(* Claims on the router                                                    *)
(***************************************************************************)
Routed == rte.op = "route_complaint"

\* C11: when the router's language-model call fails or its output is unparsable (or is
\* JSON that is no object), route_complaint returns a result, with the classifier's
\* department id and name unchanged, routing_confirmed true and escalation_required
\* false.
C11_RouterFailureKeepsClassifierDept ==
  (Routed /\ rte.llm.kind \in {"raises", "unparsable", "not_object"})
    => /\ rte.result.dept_id = rte.classification.dept_id
       /\ rte.result.dept_name = rte.classification.dept_name
       /\ rte.result.routing_confirmed = TRUE
       /\ rte.result.escalation_required = FALSE

\* C11 happens: the router's output was unparsable after the classifier's model had
\* chosen Roads & Bridges, which is not the default department
C11_Witness ==
  /\ Routed
  /\ rte.llm.kind = "unparsable"
  /\ rte.classification.path = "llm"
  /\ rte.classification.dept_id = "D01"
  /\ rte.result.dept_id = "D01"

(***************************************************************************)
(* Claims on the memory agent                                              *)
(***************************************************************************)
Calls == 1..Len(mem_calls)

\* the call passed the gate, ran to its end and returned what it had computed
CompletedCall(i) == mem_calls[i].task.state = "done" /\ mem_calls[i].task.upserted

\* the occurrence counts of the prior-year records of the call's ward, category and month
PriorOccurrences(i) == SumOccurrences(PastMemories(mem_calls[i].args))

\* the completed calls for the key (ward, category, current month and year) of a
UpsertsFor(a) ==
  {i \in Calls : /\ CompletedCall(i)
                 /\ mem_calls[i].args.ward_id = a.ward_id
                 /\ mem_calls[i].args.issue_category = a.issue_category}

RECURSIVE SumScores(_)
SumScores(idx) ==
  IF idx = {} THEN 0
  ELSE LET i == CHOOSE j \in idx : TRUE
       IN  mem_calls[i].args.priority_score + SumScores(idx \ {i})

\* C12: a call that passed the gate and completed returns no alert when the prior-year
\* occurrence counts of its ward, category and month sum to at most 1, and a non-empty
\* alert string when they sum to 2 or more, whether the language model answered or
\* the template was used.
C12_AlertIffTwoPriorOccurrences ==
  \A i \in Calls :
    CompletedCall(i) =>
      /\ PriorOccurrences(i) <= 1 => mem_calls[i].task.alert_text = None
      /\ PriorOccurrences(i) >= 2 => mem_calls[i].task.alert_text \notin {None, ""}

C20_OneRecordPerKeyCountsUpserts ==
  \A a \in MemoryCallArgs :
    /\ Cardinality(CurrentMemories(a)) <= 1
    /\ \A r \in CurrentMemories(a) :
         issue_memory[r].occurrence_count = Cardinality(UpsertsFor(a))

ActiveRecords == {i \in 1..Len(models_db) : models_db[i].is_active}

\* C17: once a retrain has persisted a model state, the persisted store has exactly one
\* record with the active flag set in every state, across retrains, closures and
\* persistence failures partway through a retrain.
C17_ExactlyOneActiveRecord ==
  models_db # <<>> => Cardinality(ActiveRecords) = 1

\* C18: the in-memory training buffer holds exactly as many samples as the cumulative
\* sample counter, in every state, including right after the startup load of a
\* persisted state.
C18_BufferLengthIsSampleCount ==
  training_len = sample_count

\* the calls that have appended their sample
Appended == {i \in Closers : closers.pc[i] # "waiting"}

\* the records persisted since the calls were made
NewRecords == {j \in 1..Len(models_db) : j > Len(closers.before.models_db)}

\* the multiples of 10 that the counter has reached since the calls were made
MultiplesReached ==
  {k \in (closers.before.sample_count + 1)..sample_count : k % RetrainEvery = 0}

\* the records persisted for the multiple k
RecordsFor(k) == {j \in NewRecords : models_db[j].sample_count = k}

AllReturned == \A i \in Closers : closers.pc[i] = "done"

\* C19 as stated: once the N concurrent calls have returned, the counter and the buffer
\* have grown by N and every multiple of 10 that the counter reached has exactly one
\* new persisted state.
C19_Original ==
  AllReturned =>
    /\ sample_count = closers.before.sample_count + MaxClosers
    /\ training_len = closers.before.training_len + MaxClosers
    /\ \A k \in MultiplesReached : Cardinality(RecordsFor(k)) = 1

\* C19: for any interleaving of N concurrent train_on_closed_ticket calls, while one call
\* is inside the section no other call takes a step and at most one call is inside; the
\* counter and the buffer have grown by the number of calls that appended; every new
\* persisted state is for a multiple of 10 that the counter reached, holds the
\* classifier fitted on all samples counted up to that multiple, and no multiple has
\* two; once all calls have returned without a failed fit or store call, every
\* multiple reached has exactly one.
C19_OneCallInSectionOneStatePerMultiple ==
  /\ [](/\ Cardinality({i \in Closers : closers.pc[i] = "inside"}) <= 1
        /\ sample_count = closers.before.sample_count + Cardinality(Appended)
        /\ training_len = closers.before.training_len + Cardinality(Appended)
        /\ \A j \in NewRecords :
             /\ models_db[j].sample_count \in MultiplesReached
             /\ models_db[j].model_bytes
                  = closers.before.training_len
                      + (models_db[j].sample_count - closers.before.sample_count)
        /\ \A k \in MultiplesReached : Cardinality(RecordsFor(k)) <= 1
        /\ (AllReturned /\ failures = 0)
             => \A k \in MultiplesReached : Cardinality(RecordsFor(k)) = 1)
  /\ [][\A i \in Closers :
          closers.pc[i] = "inside"
            => \A j \in Closers \ {i} : closers'.pc[j] = closers.pc[j]]_vars

\* C19 happens: all the calls have returned without a failure, the counter went from 8
\* over two multiples of 10 and the store holds the two states of these retrains
C19_Witness ==
  /\ AllReturned
  /\ failures = 0
  /\ closers.before.sample_count = 8
  /\ sample_count = 8 + MaxClosers
  /\ Cardinality(MultiplesReached) = 2
  /\ Len(models_db) = 2
  /\ models_db[2].is_active
  /\ ~models_db[1].is_active

\* C21: a scoring call never waits for the training lock: whenever no scoring call is
\* running one can be made and completes, also while a retrain is between its awaits
\* on the store; and the classifier a scoring call reads is a whole one: in a process
\* that has not restarted and whose fits have not failed, the one fitted at the last
\* multiple of 10 that the counter reached, on that many samples.
C21_ScoringNeverWaitsForTheLock ==
  /\ prio = NoCall => ENABLED ScoreCall
  /\ (Scored /\ failures = 0 /\ restarts = 0)
       => clf = RetrainEvery * (sample_count \div RetrainEvery)

\* C21 happens: a scoring call used the prediction of the classifier fitted on 50
\* samples while the retrain that fitted it awaits its insert
C21_Witness ==
  /\ Scored
  /\ train_pc = "insert"
  /\ prio.ml_label = "CRITICAL"
  /\ prio.source = "hybrid"
  /\ clf = 50
  /\ sample_count = 50
  /\ Len(models_db) = 4

(***************************************************************************)
(* Claims on the officers' requests                                        *)
(***************************************************************************)
\* the stored priority of a ticket
StoredPriority(ticket) ==
  <<ticket.priority_score, ticket.priority_label, ticket.priority_source>>

\* the request i writes its document in this step
Saves(i) == ops[i].pc = "save" /\ ops'[i].pc # "save"

\* C22: a step changes the stored priority score, label or source of a ticket only if
\* it is the save of a human override of that ticket, and then the stored score is the
\* overriding score clamped to 0..100, the label is the threshold function of it and the
\* source is human_override; no step of change_status changes them.
C22_OnlyOverrideChangesStoredPriority ==
  [][\A t \in 1..Len(tickets) :
       StoredPriority(tickets'[t]) # StoredPriority(tickets[t])
         => \E i \in 1..Len(ops) :
              /\ ops[i].op \in {"override_priority", "route_override_priority"}
              /\ ops[i].ticket_id = t
              /\ Saves(i)
              /\ tickets'[t].priority_score
                   = (IF ops[i].new_score < 0 THEN 0
                      ELSE IF ops[i].new_score > 10000 THEN 10000 ELSE ops[i].new_score)
              /\ tickets'[t].priority_label = ScoreToLabel(tickets'[t].priority_score)
              /\ tickets'[t].priority_source = "human_override"]_vars

\* the requests in which train_on_closed_ticket was invoked for the ticket t
TrainedOn(t) == {i \in 1..Len(ops) : ops[i].ticket_id = t /\ ops[i].trained}

\* C29: each ticket contributes at most one labelled sample to the online model: for any
\* sequence of change_status calls on a ticket, train_on_closed_ticket is invoked at most
\* once for that ticket.
C29_AtMostOneSamplePerTicket ==
  \A t \in 1..Len(tickets) :
    Cardinality(TrainedOn(t)) <= 1


(***************************************************************************)
(* Claims on the seasonal predictor                                        *)
(***************************************************************************)

\* C23: a model is trained and cached for the pair only from a daily count series of
\* at least 90 rows (one row per calendar day, missing days zero-filled)
C23_ModelOnlyFromNinetyDailyRows ==
  (spike # NoCall /\ spike.model # NoCall) => spike.model.df_len >= MIN_DATA_POINTS

\* the finished calls of predict_spike
SpikeReturned == {i \in 1..Len(spike.calls) : spike.calls[i].pc = "done"}

\* C24: a call of predict_spike made while a model of the pair is cached is served by a
\* model of the pair, also when the retrain it starts fails
C24_CachedModelStaysServable ==
  spike # NoCall =>
    \A i \in SpikeReturned :
      spike.calls[i].had_model => spike.calls[i].served # 0

\* C25: a call that got its forecast returns the alert exactly when the forecast sum is
\* strictly greater than 1.5 times a positive historical per-horizon average
C25_AlertExactlyAboveThreshold ==
  spike # NoCall =>
    \A i \in SpikeReturned :
      spike.calls[i].outcome = "forecast" =>
        (spike.calls[i].result = "prophet_spike"
           <=> /\ spike.calls[i].historical_period_avg > 0
               /\ 100 * spike.calls[i].predicted
                    > SPIKE_THRESHOLD * spike.calls[i].historical_period_avg)


(***************************************************************************)
(* Claims on the requests                                                  *)
(***************************************************************************)

\* C26: every result run_pipeline returns has a priority score of at most 58.2 and the
\* label LOW or MEDIUM, whatever the classification, the description and the state of
\* the online model
C26_PipelineScoreAtMostBlendOfCritical ==
  (run # NoCall /\ run.result # NoCall) =>
    /\ run.result.priority_score <= 5820
    /\ run.result.priority_label \in {"LOW", "MEDIUM"}

\* a result whose score is the largest one: rule score 37 blended with CRITICAL
C26_Witness ==
  /\ run # NoCall
  /\ run.result # NoCall
  /\ run.result.priority_score = 5820
  /\ run.result.priority_label = "MEDIUM"
  /\ run.result.priority_source = "hybrid"


\* C27: a request that create_ticket rejects with the clarification question has
\* created no issue-memory record and incremented no occurrence count
C27_RejectedComplaintLeavesMemory ==
  (Requested /\ run.outcome = "clarification") => ~mem_task.upserted


\* C28: a request with consent whose classification came from the keyword fallback
\* with at least one keyword hit (the language model being unavailable) is not
\* rejected with the clarification request
C28_KeywordHitWithoutModelIsAccepted ==
  (Requested /\ run.pc = "done" /\ run.consent_given
     /\ run.classification # NoCall
     /\ run.classification.path = "fallback"
     /\ ~run.classification.needs_clarification)
    => run.outcome # "clarification"


\* C30: every prediction calculate_priority uses comes from a classifier that was fitted
\* on at least 50 samples, also after a restart and after a failed retrain
C30_PredictionsFromFiftySamples ==
  (Scored /\ prio.ml_label # None) => clf >= MIN_SAMPLES_TO_USE

====
